---- MODULE Spec2Model ----
(***************************************************************************)
(* Model of the InterTalent Portal search subsystem: the query builder of  *)
(* AzureSqlDatabase.searchProfiles / getAllProfiles, the radius resolver   *)
(* (getZipCodesWithinRadius, getProfilesWithinRadius), the geocoder        *)
(* (getZipLocation, getApproximateZipLocation, getCityLocation), the       *)
(* spatial search of azure-spatial.ts and the contact endpoint with        *)
(* sendContactEmail.                                                       *)
(*                                                                         *)
(* Strings are sequences of one-character strings, so that LIKE patterns,  *)
(* toUpperCase, substring and parseInt are computed rather than assumed.   *)
(* Coordinates are hundredths of a degree, distances hundredths of a mile. *)
(***************************************************************************)
EXTENDS Integers, Sequences, FiniteSets, TLC

\* ------------------------------------------------------------------------
\* Bounds of the model
\* ------------------------------------------------------------------------
MaxPage == 2
MaxLimit == 2

\* ------------------------------------------------------------------------
\* Absent values (undefined / null of the source)
\* ------------------------------------------------------------------------
None == <<"<none>">>
NoLoc == [zip |-> None, lat |-> 0, lng |-> 0, state |-> None, found |-> FALSE]

\* ------------------------------------------------------------------------
\* Strings
\* ------------------------------------------------------------------------
LowerChars == <<"a","b","c","d","e","f","g","h","i","j","k","l","m",
                "n","o","p","q","r","s","t","u","v","w","x","y","z">>
UpperChars == <<"A","B","C","D","E","F","G","H","I","J","K","L","M",
                "N","O","P","Q","R","S","T","U","V","W","X","Y","Z">>
DigitChars == <<"0","1","2","3","4","5","6","7","8","9">>

ToUpperChar(c) ==
  IF \E i \in 1..26 : LowerChars[i] = c
  THEN UpperChars[CHOOSE i \in 1..26 : LowerChars[i] = c]
  ELSE c

\* String.prototype.toUpperCase
ToUpperCase(s) == [i \in 1..Len(s) |-> ToUpperChar(s[i])]

IsSpace(c) == c = " "

\* String.prototype.trim
RECURSIVE TrimLeft(_)
TrimLeft(s) == IF s # <<>> /\ IsSpace(Head(s)) THEN TrimLeft(Tail(s)) ELSE s

RECURSIVE TrimRight(_)
TrimRight(s) ==
  IF s # <<>> /\ IsSpace(s[Len(s)]) THEN TrimRight(SubSeq(s, 1, Len(s) - 1)) ELSE s

Trim(s) == TrimRight(TrimLeft(s))

\* `%${x}%`
Wrap(s) == <<"%">> \o s \o <<"%">>

\* T-SQL  text LIKE pattern  with the wildcards % (any string) and _ (any
\* one character), under the case-insensitive default collation the source
\* relies on (db/index.ts:286).  Bracket patterns do not occur in the model.
RECURSIVE LikeCS(_, _)
LikeCS(text, pat) ==
  IF pat = <<>> THEN text = <<>>
  ELSE IF Head(pat) = "%"
       THEN \E k \in 0..Len(text) : LikeCS(SubSeq(text, k + 1, Len(text)), Tail(pat))
       ELSE IF Head(pat) = "_"
       THEN text # <<>> /\ LikeCS(Tail(text), Tail(pat))
       ELSE /\ text # <<>>
            /\ Head(text) = Head(pat)
            /\ LikeCS(Tail(text), Tail(pat))

Like(text, pat) == LikeCS(ToUpperCase(text), ToUpperCase(pat))

\* T-SQL  a = b  on NVARCHAR under the same collation
SqlEq(a, b) == ToUpperCase(a) = ToUpperCase(b)

\* Lexical order of the collation, used by ORDER BY
CharRank(c) ==
  IF \E i \in 1..26 : UpperChars[i] = ToUpperChar(c)
  THEN 10 + (CHOOSE i \in 1..26 : UpperChars[i] = ToUpperChar(c))
  ELSE IF \E i \in 1..10 : DigitChars[i] = c
       THEN CHOOSE i \in 1..10 : DigitChars[i] = c
       ELSE 0

RECURSIVE StrLeq(_, _)
StrLeq(a, b) ==
  IF a = <<>> THEN TRUE
  ELSE IF b = <<>> THEN FALSE
  ELSE IF CharRank(Head(a)) < CharRank(Head(b)) THEN TRUE
  ELSE IF CharRank(Head(a)) > CharRank(Head(b)) THEN FALSE
  ELSE StrLeq(Tail(a), Tail(b))

\* parseInt of a string: the leading decimal digits, -1 standing for NaN
DigitVal(c) == (CHOOSE i \in 1..10 : DigitChars[i] = c) - 1
IsDigit(c) == \E i \in 1..10 : DigitChars[i] = c

RECURSIVE ParseDigits(_, _)
ParseDigits(s, acc) ==
  IF s = <<>> \/ ~IsDigit(Head(s)) THEN acc
  ELSE ParseDigits(Tail(s), 10 * acc + DigitVal(Head(s)))

\* Sequence helpers
Range(s) == {s[i] : i \in 1..Len(s)}

\* Array.from(new Set(seq)): first occurrences, in order
RECURSIVE Dedupe(_)
Dedupe(s) ==
  IF s = <<>> THEN <<>>
  ELSE LET r == Dedupe(SubSeq(s, 1, Len(s) - 1))
           x == s[Len(s)]
       IN IF x \in Range(r) THEN r ELSE Append(r, x)

\* Math.ceil(total / limit) for total >= 0, limit >= 1
CeilDiv(total, limit) == (total + limit - 1) \div limit

Min(a, b) == IF a <= b THEN a ELSE b
Max(a, b) == IF a >= b THEN a ELSE b

\* ------------------------------------------------------------------------
\* Geography of the model: postal codes, the places the external lookup
\* service knows, and the great-circle distances between the coordinates
\* that occur
\* ------------------------------------------------------------------------
ZipCle == <<"4","4","1","0","1">>
ZipAkr == <<"4","4","3","0","8">>
ZipCol == <<"4","3","2","9","9">>
ZipNyc == <<"1","0","0","0","1">>
ZipBad == <<"0","0","0","0","0">>

StOH == <<"O","H">>
StNY == <<"N","Y">>
StNV == <<"N","V">>

Loc(zip, lat, lng, state) ==
  [zip |-> zip, lat |-> lat, lng |-> lng, state |-> state, found |-> TRUE]

\* What api.zippopotam.us answers for a postal code (places[0]); NoLoc is
\* a 404 / a body without places.
ApiPlace(zipCode) ==
  CASE zipCode = ZipCle -> Loc(ZipCle, 4149, -8167, StOH)
    [] zipCode = ZipAkr -> Loc(ZipAkr, 4108, -8152, StOH)
    [] zipCode = ZipNyc -> Loc(ZipNyc, 4075, -7400, StNY)
    [] OTHER -> NoLoc

\* zipRanges of getApproximateZipLocation, in insertion order:
\* <<min prefix, max prefix, lat, lng>>
zipRanges == <<
  <<10, 27, 4200, -7100>>, <<28, 29, 4180, -7140>>, <<30, 38, 4300, -7150>>,
  <<39, 49, 4450, -6900>>, <<50, 59, 4400, -7270>>, <<60, 69, 4160, -7270>>,
  <<100, 149, 4070, -7400>>, <<150, 196, 3990, -7520>>, <<197, 199, 3930, -7660>>,
  <<200, 205, 3890, -7700>>, <<220, 246, 3750, -7750>>, <<247, 268, 3580, -7860>>,
  <<270, 289, 3370, -8440>>, <<290, 299, 3350, -8680>>, <<300, 329, 3030, -8170>>,
  <<330, 349, 3350, -8680>>, <<350, 369, 3230, -8630>>, <<370, 397, 3550, -8660>>,
  <<398, 399, 3820, -8570>>, <<400, 427, 3820, -8570>>, <<430, 432, 3996, -8299>>,
  <<433, 436, 3976, -8419>>, <<437, 438, 4108, -8152>>, <<440, 449, 4150, -8170>>,
  <<450, 458, 3976, -8616>>, <<460, 479, 4190, -8760>>, <<480, 499, 4230, -8300>>,
  <<500, 528, 4160, -9360>>, <<530, 549, 4310, -8940>>, <<550, 567, 4490, -9330>>,
  <<570, 577, 4680, -10080>>, <<580, 588, 4680, -10080>>, <<590, 599, 4660, -11200>>,
  <<600, 629, 4130, -9600>>, <<630, 658, 3860, -9020>>, <<660, 679, 3910, -9460>>,
  <<680, 699, 4130, -9600>>, <<700, 729, 2980, -9540>>, <<730, 749, 3550, -9750>>,
  <<750, 799, 3180, -9990>>, <<800, 816, 3970, -10490>>, <<820, 831, 4290, -10630>>,
  <<832, 838, 4350, -11200>>, <<840, 847, 4080, -11190>>, <<850, 865, 3340, -11210>>,
  <<870, 884, 3510, -10660>>, <<885, 898, 3610, -11520>>, <<889, 891, 3610, -11520>>,
  <<900, 961, 3400, -11820>>, <<970, 979, 4550, -12270>>, <<980, 994, 4760, -12230>>,
  <<995, 999, 6120, -14990>> >>

\* The first three characters of the code parsed as an integer select the
\* first range that contains them.
getApproximateZipLocation(zipCode) ==
  IF Len(zipCode) < 3 THEN NoLoc
  ELSE LET parseInt(s) == IF s = <<>> \/ ~IsDigit(Head(s)) THEN -1 ELSE ParseDigits(s, 0)
           prefix == parseInt(SubSeq(zipCode, 1, 3))
           hits == {i \in 1..Len(zipRanges) :
                      prefix >= zipRanges[i][1] /\ prefix <= zipRanges[i][2]}
       IN IF hits = {} THEN NoLoc
          ELSE LET i == CHOOSE j \in hits : \A k \in hits : j <= k
               IN Loc(zipCode, zipRanges[i][3], zipRanges[i][4], None)

getZipLocationNoFallback(zipCode, apiOk) ==
  IF apiOk /\ ApiPlace(zipCode).found THEN ApiPlace(zipCode) ELSE NoLoc

\* getZipLocation.  apiOk is the outcome of the external call: FALSE is a
\* network error, an abort by the 10 s timer or a non-success status.
getZipLocation(zipCode, apiOk) ==
  IF apiOk /\ ApiPlace(zipCode).found
  THEN ApiPlace(zipCode)
  ELSE getApproximateZipLocation(zipCode)

\* calculateDistance: the haversine formula with R = 3959 in IEEE double
\* arithmetic, tabulated in hundredths of a mile for the coordinates of the
\* model: the locations of the postal codes, the origin, the poles, the
\* meridian of 180 degrees from both sides, and the pair (12, 0),
\* (-12, 180) of opposite points.
Points == << <<4149, -8167>>, <<4108, -8152>>, <<3997, -8300>>, <<4075, -7400>>,
             <<4150, -8170>>, <<3996, -8299>>, <<4070, -7400>>,
             <<0, 0>>, <<1200, 0>>, <<-1200, 18000>>, <<9000, 0>>, <<-9000, 0>>,
             <<0, 18000>>, <<0, -18000>> >>

\* the result when the rounded sum a exceeds 1: Math.sqrt(1 - a) is NaN, and
\* so are atan2 and the product
NaN == -1

Haversine == <<
  <<0, 2938, 12602, 40237, 170, 12631, 40298, 578830, 524339, 719418, 335192, 908564, 664927, 664927>>,
  <<2938, 0, 10920, 39320, 3049, 10932, 39356, 577780, 523742, 720014, 338025, 905731, 665977, 665977>>,
  <<12602, 10920, 0, 47671, 12573, 87, 47650, 584848, 532065, 711691, 345695, 898061, 658909, 658909>>,
  <<40237, 39320, 47671, 0, 40398, 47630, 345, 538596, 484548, 759209, 340306, 903451, 705160, 705160>>,
  <<170, 3049, 12573, 40398, 0, 12603, 40459, 578991, 524489, 719267, 335123, 908633, 664765, 664765>>,
  <<12631, 10932, 87, 47630, 12603, 0, 47609, 584790, 532018, 711738, 345764, 897992, 658967, 658967>>,
  <<40298, 39356, 47650, 345, 40459, 47609, 0, 538533, 484541, 759215, 340651, 903105, 705224, 705224>>,
  <<578830, 577780, 584848, 538596, 578991, 584790, 538533, 0, 82917, 1160839, 621878, 621878, 1243757, 1243757>>,
  <<524339, 523742, 532065, 484548, 524489, 532018, 484541, 82917, 0, NaN, 538961, 704795, 1160839, 1160839>>,
  <<719418, 720014, 711691, 759209, 719267, 711738, 759215, 1160839, NaN, 0, 704795, 538961, 82917, 82917>>,
  <<335192, 338025, 345695, 340306, 335123, 345764, 340651, 621878, 538961, 704795, 0, 1243757, 621878, 621878>>,
  <<908564, 905731, 898061, 903451, 908633, 897992, 903105, 621878, 704795, 538961, 1243757, 0, 621878, 621878>>,
  <<664927, 665977, 658909, 705160, 664765, 658967, 705224, 1243757, 1160839, 82917, 621878, 621878, 0, 0>>,
  <<664927, 665977, 658909, 705160, 664765, 658967, 705224, 1243757, 1160839, 82917, 621878, 621878, 0, 0>> >>

PointIndex(lat, lng) == CHOOSE i \in 1..Len(Points) : Points[i] = <<lat, lng>>

calculateDistance(lat1, lng1, lat2, lng2) ==
  Haversine[PointIndex(lat1, lng1)][PointIndex(lat2, lng2)]

\* radius in miles against a distance in hundredths of a mile
WithinMiles(distance, radiusMiles) == distance # NaN /\ distance <= radiusMiles * 100

\* getZipCodesWithinRadius: no bulk radius service is configured, so the
\* function answers null whether or not the center geocodes.
NullZips == [ok |-> FALSE, zips |-> <<>>]

getZipCodesWithinRadius(centerZip, radiusMiles, apiOk) ==
  LET centerLocation == getZipLocation(centerZip, apiOk)
  IN IF ~centerLocation.found THEN NullZips ELSE NullZips

\* getProfilesWithinRadius.  profileData is a sequence of rows
\* [id, zip_code, city, state]; centerCoords is NoLoc when not supplied;
\* apiCenter and apiCand[i] are the outcomes of the external lookups.
getProfilesWithinRadiusKeepsUnlocated(centerLocation, radiusMiles, profileData, centerCoords, apiCenter, apiCand) ==
  LET centerLocationData ==
        IF centerCoords.found THEN centerCoords
        ELSE getZipLocation(centerLocation, apiCenter)
  IN IF ~centerLocationData.found THEN <<>>
     ELSE LET profileLocations ==
                [i \in 1..Len(profileData) |->
                   [id |-> profileData[i].id,
                    location |-> getZipLocation(profileData[i].zip_code, apiCand[i]),
                    zipCode |-> profileData[i].zip_code]]
              matches(pl) ==
                IF ~pl.location.found THEN TRUE
                ELSE WithinMiles(calculateDistance(centerLocationData.lat,
                                                  centerLocationData.lng,
                                                  pl.location.lat,
                                                  pl.location.lng), radiusMiles)
              matching == SelectSeq(profileLocations, matches)
          IN [i \in 1..Len(matching) |-> matching[i].id]

getProfilesWithinRadius(centerLocation, radiusMiles, profileData, centerCoords, apiCenter, apiCand) ==
  LET centerLocationData ==
        IF centerCoords.found THEN centerCoords
        ELSE getZipLocation(centerLocation, apiCenter)
  IN IF ~centerLocationData.found THEN <<>>
     ELSE LET profileLocations ==
                [i \in 1..Len(profileData) |->
                   [id |-> profileData[i].id,
                    location |-> getZipLocation(profileData[i].zip_code, apiCand[i]),
                    zipCode |-> profileData[i].zip_code]]
              matches(pl) ==
                /\ pl.location.found
                /\ WithinMiles(calculateDistance(centerLocationData.lat,
                                                 centerLocationData.lng,
                                                 pl.location.lat,
                                                 pl.location.lng), radiusMiles)
              matching == SelectSeq(profileLocations, matches)
          IN [i \in 1..Len(matching) |-> matching[i].id]

\* ------------------------------------------------------------------------
\* The profile store (table profiles of database/azure-sql-schema.sql)
\* ------------------------------------------------------------------------
Row(id, first, initial, city, state, zip, summary, office, profession, active) ==
  [id |-> id, first_name |-> first, last_initial |-> initial, city |-> city,
   state |-> state, zip_code |-> zip, professional_summary |-> summary,
   office |-> office, profession_type |-> profession, is_active |-> active]

TxtAkron == <<"A","k","r","o","n">>
TxtCols == <<"C","o","l","s">>
TxtNyc == <<"N","Y","C">>
TxtReno == <<"R","e","n","o">>
TxtMgr == <<"m","g","r">>
TxtHvac == <<"h","v","a","c">>
TxtTulsa == <<"T","u","l","s","a">>

InitialProfiles ==
  [id \in 1..5 |->
     CASE id = 1 -> Row(1, <<"D","i">>, <<"D">>, TxtAkron, StOH, ZipAkr,
                        TxtMgr, TxtAkron, <<"M","a","i","n","t">>, TRUE)
       [] id = 2 -> Row(2, <<"B","o","b">>, <<"B">>, TxtCols, StOH, ZipCol,
                        TxtHvac, TxtCols, <<"H","v","a","c">>, TRUE)
       [] id = 3 -> Row(3, <<"C","y">>, <<"C">>, TxtNyc, StNY, ZipNyc,
                        TxtMgr, TxtNyc, <<"M","a","i","n","t">>, TRUE)
       [] id = 4 -> Row(4, <<"A","n","n">>, <<"A">>, TxtReno, StNV, ZipBad,
                        TxtMgr, TxtReno, <<"L","e","a","s","e">>, TRUE)
       [] OTHER  -> Row(5, <<"E","d">>, <<"E">>, TxtAkron, StOH, ZipCle,
                        TxtMgr, TxtAkron, <<"M","a","i","n","t">>, FALSE)]

\* ------------------------------------------------------------------------
\* Parameterised queries: a request is the sequence of its inputs
\* <<name, value>>; a WHERE clause is a sequence of conditions, each naming
\* the placeholders it uses.  A name is <<base, index>>.
\* ------------------------------------------------------------------------
Cond(kind, names) == [kind |-> kind, names |-> names]

InputTwice(req, name, value) == req \o << <<name, value>>, <<name, value>> >>

\* request.input(name, type, value)
Input(req, name, value) == Append(req, <<name, value>>)

\* the value a placeholder has in the query: its last binding
ParamValue(req, name) ==
  LET last == CHOOSE i \in 1..Len(req) :
                /\ req[i][1] = name
                /\ \A j \in 1..Len(req) : req[j][1] = name => j <= i
  IN req[last][2]

Names(base, n) == [i \in 1..n |-> <<base, i - 1>>]

\* request.input(`${base}${index}`, ..., values[index]) for every index
InputAll(req, base, values) ==
  req \o [i \in 1..Len(values) |-> <<(<<base, i - 1>>), values[i]>>]

\* one condition of a WHERE clause on one row
Sat(c, row, req) ==
  CASE c.kind = "is_active" -> row.is_active
    [] c.kind = "keywords" ->
         \E i \in 1..Len(c.names) :
           LET p == ParamValue(req, c.names[i])
           IN \/ Like(row.professional_summary, p)
              \/ Like(row.first_name, p)
              \/ Like(row.last_initial, p)
              \/ Like(row.city, p)
    [] c.kind = "professions" ->
         \E i \in 1..Len(c.names) :
           Like(row.profession_type, ParamValue(req, c.names[i]))
    [] c.kind = "zipIn" ->
         \E i \in 1..Len(c.names) :
           SqlEq(row.zip_code, ParamValue(req, c.names[i]))
    [] c.kind = "idIn" ->
         \E i \in 1..Len(c.names) : row.id = ParamValue(req, c.names[i])
    [] c.kind = "zipEq" -> SqlEq(row.zip_code, ParamValue(req, c.names[1]))
    [] c.kind = "cityLike" -> Like(row.city, ParamValue(req, c.names[1]))
    [] c.kind = "stateEq" -> SqlEq(row.state, ParamValue(req, c.names[1]))
    [] c.kind = "officeEq" -> SqlEq(row.office, ParamValue(req, c.names[1]))
    [] OTHER -> FALSE

\* conditions.join(' AND ') evaluated on the table
Matching(table, conds, req) ==
  {id \in DOMAIN table : \A i \in 1..Len(conds) : Sat(conds[i], table[id], req)}

\* a recordset without ORDER BY: the rows in the order of the clustered key
RECURSIVE AscendingSeq(_)
AscendingSeq(S) ==
  IF S = {} THEN <<>>
  ELSE LET m == CHOOSE x \in S : \A y \in S : x <= y
       IN <<m>> \o AscendingSeq(S \ {m})

sortColumnOfLocationByProfession(sortBy) ==
  CASE sortBy = "name" -> "first_name"
    [] sortBy = "location" -> "profession_type"
    [] sortBy = "profession" -> "profession_type"
    [] OTHER -> "first_name"

\* switch (sortBy)
sortColumnOf(sortBy) ==
  CASE sortBy = "name" -> "first_name"
    [] sortBy = "location" -> "city"
    [] sortBy = "profession" -> "profession_type"
    [] OTHER -> "first_name"

\* ORDER BY column dir: every order of the rows that is sorted on the
\* column; rows with equal keys come in any order
OrderedBy(table, ids, column, dir) ==
  LET n == Cardinality(ids)
      key(id) == CASE column = "first_name" -> table[id].first_name
                   [] column = "city" -> table[id].city
                   [] OTHER -> table[id].profession_type
  IN {s \in [1..n -> ids] :
        /\ \A i, j \in 1..n : i # j => s[i] # s[j]
        /\ \A i \in 1..(n - 1) :
             IF dir = "ASC" THEN StrLeq(key(s[i]), key(s[i + 1]))
             ELSE StrLeq(key(s[i + 1]), key(s[i]))}

OffsetFetchSkipsAPage(s, offset, limit) ==
  SubSeq(s, offset + limit + 1, Min(Len(s), offset + 2 * limit))

\* OFFSET offset ROWS FETCH NEXT limit ROWS ONLY
OffsetFetch(s, offset, limit) == SubSeq(s, offset + 1, Min(Len(s), offset + limit))

\* sortDirection.toUpperCase()
SortDir(d) == IF d = "asc" THEN "ASC" ELSE "DESC"

\* ------------------------------------------------------------------------
\* getCityLocation: the Nominatim search and the choice of the best match
\* ------------------------------------------------------------------------
\* what nominatim.openstreetmap.org answers for a city query: a list of
\* [lat, lon, state], state being address.state
TxtMesa == <<"M","e","s","a">>
TxtTroy == <<"T","r","o","y">>

NominatimResults(city) ==
  IF SqlEq(city, TxtAkron)
  THEN << [lat |-> 4108, lon |-> -8152, state |-> <<"O","h","i","o">>] >>
  ELSE IF SqlEq(city, TxtMesa)
  THEN << [lat |-> 3342, lon |-> -11183, state |-> <<"A","r","i","z","o","n","a">>] >>
  ELSE IF SqlEq(city, TxtTroy)
  THEN << [lat |-> 4261, lon |-> -8315, state |-> <<"M","i","c","h","i","g","a","n">>],
          [lat |-> 4004, lon |-> -8420, state |-> <<"O","h","i","o">>] >>
  ELSE <<>>

getCityLocation(city, state, apiOk) ==
  LET data == IF apiOk THEN NominatimResults(city) ELSE <<>>
      stateOf(r) == r.state
      isMatch(r) ==
        \/ ToUpperCase(stateOf(r)) = ToUpperCase(state)
        \/ ToUpperCase(SubSeq(stateOf(r), 1, Min(2, Len(stateOf(r))))) = ToUpperCase(state)
      stateMatches == SelectSeq(data, isMatch)
  IN IF Len(data) = 0 THEN NoLoc
     ELSE IF state # None /\ state # <<>>
          THEN IF Len(stateMatches) > 0
               THEN Loc(city, stateMatches[1].lat, stateMatches[1].lon, None)
               ELSE NoLoc
          ELSE Loc(city, data[1].lat, data[1].lon, None)

\* ------------------------------------------------------------------------
\* State
\* ------------------------------------------------------------------------
VARIABLES
  profiles,               \* the table profiles: id -> row
  op,                     \* the operation in progress
  pc,                     \* its position
  params,                 \* its arguments
  conditions,             \* searchProfiles: conditions of the main query
  request,                \* searchProfiles: inputs of the main request
  radiusSearchAttempted,
  radiusSearchSucceeded,
  radiusFilteredIds,      \* <<>> while null
  stateFilter,
  centerZipCodes,
  centerLocation,
  filteredProfiles,       \* recordset of the pre-filter query
  centerIndex,            \* position of the loop over centerZipCodes
  allRadiusFilteredIdsSet,
  geoLog,                 \* per center: the locations its lookups returned
  queries,                \* the store queries and geocoder calls issued
  countWhere,             \* WHERE clause and inputs of the count query
  total,
  result,
  toEmail,                \* POST: the destination address resolved so far
  emailParams,            \* POST: the argument handed to sendContactEmail
  emailResult,            \* POST: what sendContactEmail answered
  writer,                 \* the insertProfiles / deleteProfiles call in progress
  deletedIds,             \* ids whose UPDATE of deleteProfiles has run
  centerLocationData,     \* getProfilesWithinRadius: the center
  lookups,                \* getProfilesWithinRadius: per candidate, its lookup
  settled,                \* the candidates in the order their lookups settled
  timer,                  \* the setTimeout of a geocoder call
  allProfiles,            \* ProfileResults: the ids of the loaded profiles
  displayCount,           \* ProfileResults
  isLoadingMore,          \* ProfileResults
  inFlight                \* handleShowMore invocations awaiting their fetch

vars == <<allProfiles, displayCount, isLoadingMore, inFlight, timer, centerLocationData, lookups, settled, writer, deletedIds, toEmail, emailParams, emailResult, profiles, op, pc, params, conditions, request, radiusSearchAttempted,
          radiusSearchSucceeded, radiusFilteredIds, stateFilter, centerZipCodes,
          centerLocation, filteredProfiles, centerIndex, allRadiusFilteredIdsSet,
          geoLog, queries, countWhere, total, result>>

radiusVars == <<radiusSearchAttempted, radiusSearchSucceeded, radiusFilteredIds,
                stateFilter, centerZipCodes, centerLocation>>

contactVars == <<toEmail, emailParams, emailResult>>

writerVars == <<writer, deletedIds>>

lookupVars == <<centerLocationData, lookups, settled>>

clientVars == <<allProfiles, displayCount, isLoadingMore, inFlight>>

\* what the operations of one caller leave alone
envVars == <<writerVars, lookupVars, timer, clientVars>>

loopVars == <<filteredProfiles, centerIndex, allRadiusFilteredIdsSet, geoLog>>

\* ------------------------------------------------------------------------
\* Arguments
\* ------------------------------------------------------------------------
\* JavaScript truthiness of an optional string / of an optional number
Truthy(str) == str # None /\ str # <<>>

PositiveAnyNonZero(radius) == radius # <<>> /\ radius[1] # 0

\* radius && radius > 0
Positive(radius) == radius # <<>> /\ radius[1] > 0


Page(ids, tot, page, limit, totalPages) ==
  [kind |-> "page", profiles |-> ids, total |-> tot, page |-> page,
   limit |-> limit, totalPages |-> totalPages]

EmptyPage(p) == Page(<<>>, 0, p.page, p.limit, 0)

SearchInputs ==
  [query : {None},
   keywords : {<<>>, <<TxtMgr>>},
   professionTypes : {<<>>},
   city : {None, <<"a","k","r","o","n">>},
   state : {None, <<"o","h">>, StNY},
   zipCode : {None, ZipCle, ZipBad},
   zipCodes : {<<>>, <<ZipNyc>>, <<ZipCle>>},
   radius : {<<>>, <<-5>>, <<0>>, <<25>>},
   office : {None, TxtTulsa},
   page : 1..MaxPage,
   limit : 1..MaxLimit,
   sortBy : {"name"},
   sortDirection : {"asc"}]

\* searches without radius that exercise the keyword and profession
\* filters and the sort

FilterInputs ==
  [query : {None},
   keywords : {<<>>, <<<<" ","m","g","r"," ">>>>, <<<<"m","_","r">>>>, <<TxtHvac, TxtReno>>},
   professionTypes : {<<>>, << <<"m","a","i","n">> >>, << <<"M","A","I","N","T">> >>},
   city : {None},
   state : {None},
   zipCode : {None},
   zipCodes : {<<>>},
   radius : {<<>>},
   office : {None},
   page : 1..MaxPage,
   limit : 1..MaxLimit,
   sortBy : {"name", "location", "profession", "other"},
   sortDirection : {"asc", "desc"}]

\* radius searches that carry a keyword, a profession and an office
RadiusFilterInputs ==
  [query : {None},
   keywords : {<<TxtMgr>>},
   professionTypes : {<< <<"m","a","i","n","t">> >>},
   city : {None, <<"a","k","r","o","n">>},
   state : {None, <<"o","h">>},
   zipCode : {None, ZipCle},
   zipCodes : {<<>>},
   radius : {<<25>>},
   office : {None, TxtAkron},
   page : {1},
   limit : {MaxLimit},
   sortBy : {"name"},
   sortDirection : {"asc"}]

AllInputs ==
  [page : 1..MaxPage, limit : 1..MaxLimit,
   sortBy : {"name", "location", "profession", "other"},
   sortDirection : {"asc", "desc"}]


\* no sync-service call is running
NoWriter == [op |-> "none", items |-> <<>>]

InitLocals ==
  /\ conditions = <<>>
  /\ request = <<>>
  /\ radiusSearchAttempted = FALSE
  /\ radiusSearchSucceeded = FALSE
  /\ radiusFilteredIds = <<>>
  /\ stateFilter = None
  /\ centerZipCodes = <<>>
  /\ centerLocation = None
  /\ filteredProfiles = <<>>
  /\ centerIndex = 0
  /\ allRadiusFilteredIdsSet = <<>>
  /\ geoLog = <<>>
  /\ queries = <<>>
  /\ countWhere = [conds |-> <<>>, req |-> <<>>]
  /\ total = 0
  /\ result = [kind |-> "none"]
  /\ toEmail = None
  /\ emailParams = [toEmail |-> None, location |-> None, comment |-> None]
  /\ emailResult = "none"
  /\ deletedIds = {}
  /\ centerLocationData = NoLoc
  /\ lookups = <<>>
  /\ settled = <<>>
  /\ timer = "none"

\* ------------------------------------------------------------------------
\* AzureSqlDatabase.searchProfiles
\* ------------------------------------------------------------------------
\* keywords && keywords.length > 0 ? keywords : query ? [query] : []
keywordsToSearch(p) ==
  IF Len(p.keywords) > 0 THEN p.keywords
  ELSE IF Truthy(p.query) THEN <<p.query>> ELSE <<>>

KeywordPatterns(p) ==
  [i \in 1..Len(keywordsToSearch(p)) |-> Wrap(Trim(keywordsToSearch(p)[i]))]

\* the keyword and profession conditions, bound under the given names
BaseFilters(p, conds, req, kwBase, profBase) ==
  LET kws == KeywordPatterns(p)
      c1 == IF Len(kws) > 0
            THEN Append(conds, Cond("keywords", Names(kwBase, Len(kws))))
            ELSE conds
      r1 == InputAll(req, kwBase, kws)
      c2 == IF Len(p.professionTypes) > 0
            THEN Append(c1, Cond("professions", Names(profBase, Len(p.professionTypes))))
            ELSE c1
      r2 == InputAll(r1, profBase, p.professionTypes)
  IN [conds |-> c2, req |-> r2]

CenterZipCodesFirstOnly(p) ==
  IF Truthy(p.zipCode) THEN <<p.zipCode>>
  ELSE IF Len(p.zipCodes) > 0 THEN <<p.zipCodes[1]>> ELSE <<>>

\* new Set([...(zipCode ? [zipCode] : []), ...(zipCodes ...)])
CenterZipCodes(p) ==
  Dedupe((IF Truthy(p.zipCode) THEN <<p.zipCode>> ELSE <<>>) \o p.zipCodes)

\* lines 239-336 and 590-605: the keyword and profession conditions, the
\* radius guard, the centers, the state derived from the first center, and
\* the plain postal-code predicates of a search without radius
SearchBegin ==
  /\ op = "searchProfiles" /\ pc = "start"
  /\ LET base == BaseFilters(params, <<Cond("is_active", <<>>)>>, <<>>,
                             "keyword", "profession")
     IN IF Positive(params.radius)
        THEN /\ radiusSearchAttempted' = TRUE
             /\ centerZipCodes' = CenterZipCodes(params)
             /\ conditions' = base.conds
             /\ request' = base.req
             /\ IF Len(centerZipCodes') > 0
                THEN /\ centerLocation' = None
                     /\ pc' = "bulkTier"
                     /\ IF ~Truthy(params.state)
                        THEN \E apiOk \in BOOLEAN :
                               LET zipLocation == getZipLocation(centerZipCodes'[1], apiOk)
                               IN /\ stateFilter' =
                                       IF zipLocation.found /\ Truthy(zipLocation.state)
                                       THEN zipLocation.state ELSE params.state
                                  /\ queries' = Append(queries, "geocode")
                        ELSE /\ stateFilter' = params.state
                             /\ queries' = queries
                ELSE /\ stateFilter' = params.state
                     /\ queries' = queries
                     /\ IF Truthy(params.city)
                        THEN centerLocation' = params.city /\ pc' = "cityPreFilter"
                        ELSE centerLocation' = None /\ pc' = "main"
        ELSE /\ UNCHANGED <<radiusSearchAttempted, centerZipCodes, centerLocation,
                            stateFilter, queries>>
             /\ pc' = "main"
             /\ IF Len(params.zipCodes) > 0
                THEN /\ conditions' = Append(base.conds,
                                             Cond("zipIn", Names("zip", Len(params.zipCodes))))
                     /\ request' = InputAll(base.req, "zip", params.zipCodes)
                ELSE IF Truthy(params.zipCode)
                THEN /\ conditions' = Append(base.conds, Cond("zipEq", <<(<<"zipCode", 0>>)>>))
                     /\ request' = Input(base.req, <<"zipCode", 0>>, params.zipCode)
                ELSE /\ conditions' = base.conds
                     /\ request' = base.req
  /\ UNCHANGED <<envVars, contactVars, profiles, op, params, radiusSearchSucceeded, radiusFilteredIds,
                 loopVars, countWhere, total, result>>

\* lines 337-373: the bulk postal-code tier
BulkTier ==
  /\ op = "searchProfiles" /\ pc = "bulkTier"
  /\ \E apiOk \in [1..Len(centerZipCodes) -> BOOLEAN] :
       LET allNearbyZipCodesArrays ==
             [i \in 1..Len(centerZipCodes) |->
                getZipCodesWithinRadius(centerZipCodes[i], params.radius[1], apiOk[i])]
           flat[i \in 0..Len(centerZipCodes)] ==
             IF i = 0 THEN <<>> ELSE flat[i - 1] \o allNearbyZipCodesArrays[i].zips
           allNearbyZipCodes == Dedupe(flat[Len(centerZipCodes)])
       IN IF Len(allNearbyZipCodes) > 0
          THEN /\ request' = InputAll(request, "radiusZip", allNearbyZipCodes)
               /\ conditions' = Append(conditions,
                                       Cond("zipIn", Names("radiusZip", Len(allNearbyZipCodes))))
               /\ radiusSearchSucceeded' = TRUE
               /\ pc' = "main"
          ELSE /\ UNCHANGED <<request, conditions, radiusSearchSucceeded>>
               /\ pc' = "zipPreFilter"
  /\ queries' = queries \o [i \in 1..Len(centerZipCodes) |-> "geocode"]
  /\ UNCHANGED <<envVars, contactVars, profiles, op, params, radiusSearchAttempted, radiusFilteredIds,
                 stateFilter, centerZipCodes, centerLocation, loopVars,
                 countWhere, total, result>>

\* the pre-filter request of the postal-code path (lines 375-407) and of
\* the city path (lines 483-527)
PreFilter(p, cityPath, stFilter) ==
  LET kws == KeywordPatterns(p)
      c0 == <<Cond("is_active", <<>>)>>
      c1 == IF Len(p.professionTypes) > 0
            THEN Append(c0, Cond("professions", Names("preProf", Len(p.professionTypes))))
            ELSE c0
      r1 == InputAll(<<>>, "preProf", p.professionTypes)
      c2 == IF Len(kws) > 0
            THEN Append(c1, Cond("keywords", Names("preKw", Len(kws))))
            ELSE c1
      r2 == InputAll(r1, "preKw", kws)
      c3 == IF Truthy(p.office)
            THEN Append(c2, Cond("officeEq", <<(<<"preOffice", 0>>)>>)) ELSE c2
      r3 == IF Truthy(p.office) THEN Input(r2, <<"preOffice", 0>>, p.office) ELSE r2
      c4 == IF cityPath /\ Truthy(stFilter) /\ Truthy(p.city)
            THEN Append(c3, Cond("stateEq", <<(<<"preState", 0>>)>>))
            ELSE IF cityPath /\ Truthy(p.city) /\ ~Truthy(stFilter)
            THEN Append(c3, Cond("cityLike", <<(<<"preCity", 0>>)>>))
            ELSE c3
      r4 == IF cityPath /\ Truthy(stFilter) /\ Truthy(p.city)
            THEN Input(r3, <<"preState", 0>>, ToUpperCase(stFilter))
            ELSE IF cityPath /\ Truthy(p.city) /\ ~Truthy(stFilter)
            THEN Input(r3, <<"preCity", 0>>, Wrap(p.city))
            ELSE r3
  IN [conds |-> c4, req |-> r4]

HasCandidatesAlways(rows) == TRUE

\* if (filteredProfiles && filteredProfiles.length > 0)
HasCandidates(rows) == Len(rows) > 0

\* SELECT id, zip_code, city, state FROM profiles WHERE ...
Recordset(table, pre) ==
  LET ids == AscendingSeq(Matching(table, pre.conds, pre.req))
  IN [i \in 1..Len(ids) |->
        [id |-> ids[i], zip_code |-> table[ids[i]].zip_code,
         city |-> table[ids[i]].city, state |-> table[ids[i]].state]]

Ids(rows) == [i \in 1..Len(rows) |-> rows[i].id]

\* lines 374-422 and 468-476: the pre-filter query of the postal-code path
ZipPreFilter ==
  /\ op = "searchProfiles" /\ pc = "zipPreFilter"
  /\ queries' = Append(queries, "preFilter")
  /\ LET rows == Recordset(profiles, PreFilter(params, FALSE, stateFilter))
     IN /\ filteredProfiles' = rows
        /\ IF HasCandidates(rows)
           THEN /\ pc' = "zipRadius"
                /\ centerIndex' = 1
                /\ result' = result
           ELSE /\ pc' = "done"
                /\ centerIndex' = centerIndex
                /\ result' = EmptyPage(params)
  /\ UNCHANGED <<envVars, contactVars, profiles, op, params, conditions, request, radiusVars,
                 allRadiusFilteredIdsSet, geoLog, countWhere, total>>

\* lines 478-480 and 586-588: a pre-filter query that fails is logged and
\* the search goes on to the main query
PreFilterFails ==
  /\ op = "searchProfiles" /\ pc \in {"zipPreFilter", "cityPreFilter"}
  /\ queries' = queries \o <<"preFilter", "warnRadiusSearch">>
  /\ pc' = "main"
  /\ UNCHANGED <<envVars, contactVars, profiles, op, params, conditions, request, radiusVars, loopVars,
                 countWhere, total, result>>

NoIdsLeftNever(ids) == FALSE

\* if (radiusFilteredIds.length === 0)
NoIdsLeft(ids) == Len(ids) = 0

\* request.input(`radiusId${index}`, id) ... conditions.push(`id IN (...)`)
PushIdFilter(ids) ==
  /\ request' = InputAll(request, "radiusId", ids)
  /\ conditions' = Append(conditions, Cond("idIn", Names("radiusId", Len(ids))))
  /\ radiusSearchSucceeded' = TRUE

\* the locations the lookups of one getProfilesWithinRadius call returned
LookupLog(center, centerData, rows, apiCand, ids) ==
  [center |-> center, centerData |-> centerData, ids |-> ids,
   locations |-> IF centerData.found
                 THEN [i \in 1..Len(rows) |-> getZipLocation(rows[i].zip_code, apiCand[i])]
                 ELSE <<>>]

\* lines 424-459: one turn of the loop over the centers, and after the last
\* center the empty page or the id filter
ZipRadiusCenter ==
  /\ op = "searchProfiles" /\ pc = "zipRadius"
  /\ \E apiCenter \in BOOLEAN, apiCand \in [1..Len(filteredProfiles) -> BOOLEAN] :
       LET centerZip == centerZipCodes[centerIndex]
           idsForCenter == getProfilesWithinRadius(centerZip, params.radius[1],
                                                   filteredProfiles, NoLoc,
                                                   apiCenter, apiCand)
           idSet == Dedupe(allRadiusFilteredIdsSet \o idsForCenter)
       IN /\ allRadiusFilteredIdsSet' = idSet
          /\ geoLog' = Append(geoLog, LookupLog(centerZip,
                                                getZipLocation(centerZip, apiCenter),
                                                filteredProfiles, apiCand,
                                                idsForCenter))
          /\ queries' = Append(queries, "geocode")
          /\ IF centerIndex < Len(centerZipCodes)
             THEN /\ centerIndex' = centerIndex + 1
                  /\ UNCHANGED <<pc, radiusFilteredIds, request, conditions,
                                 radiusSearchSucceeded, result>>
             ELSE /\ centerIndex' = centerIndex
                  /\ radiusFilteredIds' = idSet
                  /\ IF NoIdsLeft(idSet)
                     THEN /\ result' = EmptyPage(params)
                          /\ pc' = "done"
                          /\ UNCHANGED <<request, conditions, radiusSearchSucceeded>>
                     ELSE /\ PushIdFilter(idSet)
                          /\ pc' = "main"
                          /\ result' = result
  /\ UNCHANGED <<envVars, contactVars, profiles, op, params, radiusSearchAttempted, stateFilter,
                 centerZipCodes, centerLocation, filteredProfiles, countWhere, total>>

\* lines 460-467 and 572-576: getProfilesWithinRadius (or getCityLocation)
\* rejects; the handler keeps the pre-filtered ids and reports success
RadiusError ==
  /\ op = "searchProfiles" /\ pc \in {"zipRadius", "cityRadius"}
  /\ radiusFilteredIds' = Ids(filteredProfiles)
  /\ radiusSearchSucceeded' = TRUE
  /\ queries' = Append(queries, "geocode")
  /\ pc' = "main"
  /\ UNCHANGED <<envVars, contactVars, profiles, op, params, conditions, request, radiusSearchAttempted,
                 stateFilter, centerZipCodes, centerLocation, loopVars,
                 countWhere, total, result>>

\* lines 481-536 and 577-585: the pre-filter query of the city path
CityPreFilter ==
  /\ op = "searchProfiles" /\ pc = "cityPreFilter"
  /\ queries' = Append(queries, "preFilter")
  /\ LET rows == Recordset(profiles, PreFilter(params, TRUE, stateFilter))
     IN /\ filteredProfiles' = rows
        /\ IF HasCandidates(rows)
           THEN pc' = "cityRadius" /\ result' = result
           ELSE pc' = "done" /\ result' = EmptyPage(params)
  /\ UNCHANGED <<envVars, contactVars, profiles, op, params, conditions, request, radiusVars, centerIndex,
                 allRadiusFilteredIdsSet, geoLog, countWhere, total>>

\* lines 538-571: the city is geocoded and the candidates are filtered by
\* their distance to it
CityRadius ==
  /\ op = "searchProfiles" /\ pc = "cityRadius"
  /\ \E apiCity \in BOOLEAN, apiCand \in [1..Len(filteredProfiles) -> BOOLEAN] :
       LET centerCoords == getCityLocation(params.city, params.state, apiCity)
           ids == IF ~centerCoords.found THEN Ids(filteredProfiles)
                  ELSE getProfilesWithinRadius(centerLocation, params.radius[1],
                                               filteredProfiles, centerCoords,
                                               TRUE, apiCand)
       IN /\ radiusFilteredIds' = ids
          /\ geoLog' = Append(geoLog, LookupLog(centerLocation, centerCoords,
                                                filteredProfiles, apiCand, ids))
          /\ IF NoIdsLeft(ids)
             THEN /\ result' = EmptyPage(params)
                  /\ pc' = "done"
                  /\ UNCHANGED <<request, conditions, radiusSearchSucceeded>>
             ELSE /\ PushIdFilter(ids)
                  /\ pc' = "main"
                  /\ result' = result
  /\ queries' = Append(queries, "geocode")
  /\ UNCHANGED <<envVars, contactVars, profiles, op, params, radiusSearchAttempted, stateFilter,
                 centerZipCodes, centerLocation, filteredProfiles, centerIndex,
                 allRadiusFilteredIdsSet, countWhere, total>>

isRadiusSearchNever(radius) == FALSE

\* line 608: const isRadiusSearch = radius && radius > 0
isRadiusSearch(radius) == Positive(radius)

MainFiltersNoOffice(p, conds, req, attempted, succeeded) ==
  [conds |-> conds, req |-> req]

\* lines 607-634: the plain city and state predicates of a search without
\* radius, the state fallback of a failed radius search, the office
MainFilters(p, conds, req, attempted, succeeded) ==
  LET plain == ~isRadiusSearch(p.radius)
      c1 == IF plain /\ Truthy(p.city)
            THEN Append(conds, Cond("cityLike", <<(<<"city", 0>>)>>)) ELSE conds
      r1 == IF plain /\ Truthy(p.city)
            THEN Input(req, <<"city", 0>>, Wrap(p.city)) ELSE req
      c2 == IF plain /\ Truthy(p.state)
            THEN Append(c1, Cond("stateEq", <<(<<"state", 0>>)>>)) ELSE c1
      r2 == IF plain /\ Truthy(p.state)
            THEN Input(r1, <<"state", 0>>, ToUpperCase(p.state)) ELSE r1
      fallback == attempted /\ ~succeeded /\ Truthy(p.state)
      c3 == IF fallback
            THEN Append(c2, Cond("stateEq", <<(<<"fallbackState", 0>>)>>)) ELSE c2
      r3 == IF fallback
            THEN Input(r2, <<"fallbackState", 0>>, ToUpperCase(p.state)) ELSE r2
      c4 == IF Truthy(p.office)
            THEN Append(c3, Cond("officeEq", <<(<<"office", 0>>)>>)) ELSE c3
      r4 == IF Truthy(p.office) THEN Input(r3, <<"office", 0>>, p.office) ELSE r3
  IN [conds |-> c4, req |-> r4]

\* lines 607-662: the remaining filters and the count query
MainCount ==
  /\ op = "searchProfiles" /\ pc = "main"
  /\ LET m == MainFilters(params, conditions, request,
                          radiusSearchAttempted, radiusSearchSucceeded)
     IN /\ conditions' = m.conds
        /\ request' = m.req
        /\ countWhere' = [conds |-> m.conds, req |-> m.req]
        /\ total' = Cardinality(Matching(profiles, m.conds, m.req))
  /\ queries' = Append(queries, "count")
  /\ pc' = "page"
  /\ UNCHANGED <<envVars, contactVars, profiles, op, params, radiusVars, loopVars, result>>

\* lines 664-685: the page query and the returned page
MainPage ==
  /\ op = "searchProfiles" /\ pc = "page"
  /\ LET offset == (params.page - 1) * params.limit
         req == Input(Input(request, <<"offset", 0>>, offset),
                      <<"limit", 0>>, params.limit)
     IN /\ request' = req
        /\ \E s \in OrderedBy(profiles, Matching(profiles, conditions, req),
                              sortColumnOf(params.sortBy), SortDir(params.sortDirection)) :
             result' = Page(OffsetFetch(s, ParamValue(req, <<"offset", 0>>),
                                        ParamValue(req, <<"limit", 0>>)),
                            total, params.page, params.limit,
                            CeilDiv(total, params.limit))
  /\ queries' = Append(queries, "page")
  /\ pc' = "done"
  /\ UNCHANGED <<envVars, contactVars, profiles, op, params, conditions, radiusVars, loopVars,
                 countWhere, total>>

\* a count or page query that fails rejects the call (no handler catches it)
QueryFails ==
  /\ pc \in {"main", "page"}
  /\ result' = [kind |-> "error"]
  /\ pc' = "done"
  /\ UNCHANGED <<envVars, contactVars, profiles, op, params, conditions, request, radiusVars, loopVars,
                 queries, countWhere, total>>

\* ------------------------------------------------------------------------
\* AzureSqlDatabase.getAllProfiles
\* ------------------------------------------------------------------------
ActiveOnly == <<Cond("is_active", <<>>)>>

\* lines 157-184: the count query
GetAllCount ==
  /\ op = "getAllProfiles" /\ pc = "start"
  /\ conditions' = ActiveOnly
  /\ countWhere' = [conds |-> ActiveOnly, req |-> <<>>]
  /\ total' = Cardinality(Matching(profiles, ActiveOnly, <<>>))
  /\ queries' = Append(queries, "count")
  /\ pc' = "page"
  /\ UNCHANGED <<envVars, contactVars, profiles, op, params, request, radiusVars, loopVars, result>>

\* lines 186-209: the page query and the returned page
GetAllPage ==
  /\ op = "getAllProfiles" /\ pc = "page"
  /\ LET offset == (params.page - 1) * params.limit
         req == Input(Input(<<>>, <<"offset", 0>>, offset), <<"limit", 0>>, params.limit)
     IN /\ request' = req
        /\ \E s \in OrderedBy(profiles, Matching(profiles, ActiveOnly, req),
                              sortColumnOf(params.sortBy), SortDir(params.sortDirection)) :
             result' = Page(OffsetFetch(s, offset, params.limit), total,
                            params.page, params.limit, CeilDiv(total, params.limit))
  /\ queries' = Append(queries, "page")
  /\ pc' = "done"
  /\ UNCHANGED <<envVars, contactVars, profiles, op, params, conditions, radiusVars, loopVars,
                 countWhere, total>>

\* ------------------------------------------------------------------------
\* azure-spatial.ts: the table with a GeoLocation column and the spatial
\* search
\* ------------------------------------------------------------------------
NoPoint == <<>>

GeoRow(id, zip, state, office, profession, point) ==
  [PersonID |-> id, ZipCode |-> zip, State |-> state, Office |-> office,
   ProfessionType |-> profession, GeoLocation |-> point]

GeoTable ==
  [id \in 1..4 |->
     CASE id = 1 -> GeoRow(1, ZipAkr, StOH, TxtAkron, <<"M","a","i","n","t">>, <<4108, -8152>>)
       [] id = 2 -> GeoRow(2, ZipCol, StOH, TxtCols, <<"H","v","a","c">>, <<3996, -8299>>)
       [] id = 3 -> GeoRow(3, ZipNyc, StNY, TxtNyc, <<"M","a","i","n","t">>, <<4075, -7400>>)
       [] OTHER  -> GeoRow(4, ZipBad, StNV, TxtReno, <<"L","e","a","s","e">>, NoPoint)]

\* hasGeoLocationData: COUNT(*) WHERE GeoLocation IS NOT NULL, > 0
hasGeoLocationData(table) ==
  Cardinality({id \in DOMAIN table : table[id].GeoLocation # NoPoint}) > 0

\* GeoLocation.STDistance(@center) <= @radiusMeters, with
\* radiusMeters = radiusMiles * 1609.344: the distance in miles against
\* the radius in miles
\* [...(centerZip ? [centerZip] : []), ...centerZips].filter(Boolean)
allCenterZips(p) ==
  SelectSeq((IF Truthy(p.centerZip) THEN <<p.centerZip>> ELSE <<>>) \o p.centerZips,
            Truthy)

\* lines 211-253: the WHERE clause of the spatial search on one row
SpatialSat(row, p, centerLoc) ==
  /\ row.GeoLocation # NoPoint
  /\ WithinMiles(calculateDistance(centerLoc.lat, centerLoc.lng,
                                   row.GeoLocation[1], row.GeoLocation[2]),
                 p.radiusMiles)
  /\ Len(p.professionTypes) > 0 =>
       \E i \in 1..Len(p.professionTypes) :
         Like(row.ProfessionType, Wrap(p.professionTypes[i]))
  /\ Len(p.states) > 0 =>
       \E i \in 1..Len(p.states) : SqlEq(row.State, ToUpperCase(p.states[i]))
  /\ Len(p.offices) > 0 =>
       \E i \in 1..Len(p.offices) : SqlEq(row.Office, p.offices[i])

\* ORDER BY GeoLocation.STDistance(@center)
OrderedByDistance(table, ids, centerLoc) ==
  LET n == Cardinality(ids)
      d(id) == calculateDistance(centerLoc.lat, centerLoc.lng,
                                 table[id].GeoLocation[1], table[id].GeoLocation[2])
  IN {s \in [1..n -> ids] :
        /\ \A i, j \in 1..n : i # j => s[i] # s[j]
        /\ \A i \in 1..(n - 1) : d(s[i]) <= d(s[i + 1])}

SpatialInputs ==
  [centerZip : {None, ZipCle, ZipBad},
   centerZips : {<<>>, <<ZipNyc>>, <<ZipCle, ZipNyc>>},
   radiusMiles : {25},
   professionTypes : {<<>>, << <<"m","a","i","n">> >>},
   states : {<<>>, << <<"o","h">> >>},
   offices : {<<>>},
   page : 1..MaxPage,
   limit : 1..MaxLimit]

NullResult == [kind |-> "null"]

\* spatialProfileSearch, lines 176-320: null without a center or without
\* its coordinates, else the count and the page of the rows within the
\* radius of the first center
SpatialMatch(table, p, apiOk) ==
  {id \in DOMAIN table :
     SpatialSat(table[id], p, getZipLocation(allCenterZips(p)[1], apiOk))}

spatialProfileSearch ==
  /\ op = "spatialProfileSearch" /\ pc = "start"
  /\ pc' = "done"
  /\ IF Len(allCenterZips(params)) = 0
     THEN result' = NullResult /\ UNCHANGED <<queries, total, geoLog>>
     ELSE \E apiOk \in BOOLEAN :
            LET centerLoc == getZipLocation(allCenterZips(params)[1], apiOk)
                offset == (params.page - 1) * params.limit
            IN /\ geoLog' = <<[center |-> allCenterZips(params)[1],
                               centerData |-> centerLoc,
                               ids |-> IF centerLoc.found
                                       THEN AscendingSeq(SpatialMatch(GeoTable, params, apiOk))
                                       ELSE <<>>,
                               locations |-> <<>>]>>
               /\ IF ~centerLoc.found
                  THEN /\ result' = NullResult
                       /\ queries' = <<"geocode">>
                       /\ total' = total
                  ELSE /\ queries' = <<"geocode", "spatialCount", "spatialPage">>
                       /\ total' = Cardinality(SpatialMatch(GeoTable, params, apiOk))
                       /\ \E s \in OrderedByDistance(GeoTable,
                                                     SpatialMatch(GeoTable, params, apiOk),
                                                     centerLoc) :
                            result' = Page(OffsetFetch(s, offset, params.limit), total',
                                           params.page, params.limit,
                                           CeilDiv(total', params.limit))
  /\ UNCHANGED <<envVars, contactVars, profiles, op, params, conditions, request, radiusVars,
                 filteredProfiles, centerIndex, allRadiusFilteredIdsSet, countWhere>>

\* lines 316-319: any failure inside spatialProfileSearch yields null
SpatialFails ==
  /\ op = "spatialProfileSearch" /\ pc = "start"
  /\ Len(allCenterZips(params)) > 0
  /\ pc' = "done"
  /\ result' = NullResult
  /\ UNCHANGED <<envVars, contactVars, profiles, op, params, conditions, request, radiusVars, loopVars,
                 queries, countWhere, total>>

\* ------------------------------------------------------------------------
\* geospatial.ts: calls of the geocoder on their own
\* ------------------------------------------------------------------------
\* postal-code strings: known to the lookup service, known to the table
\* only, in no table range (000, 210), shorter than three characters, with
\* a letter among the first three characters, in two table ranges (889),
\* of exactly three characters
ZipInputs ==
  [zipCode :
  {ZipCle, ZipCol, ZipNyc, ZipBad, <<>>, <<"4","4">>,
   <<"2","1","0","0","1">>, <<"1","2","a","4","5">>, <<"a","4","5","0","1">>,
   <<"8","8","9","0","1">>, <<"9","9","9">>}]

\* how the fetch of getZipLocation ends: a response with status 2xx, a
\* response with another status, a network error, an abort by the timer
FetchOutcomes == {"response", "status", "networkError", "abort"}

LocationResult(loc) == [kind |-> "location", loc |-> loc]

\* getZipLocation, lines 52-103: every outcome of the fetch other than a
\* 2xx response with a place is logged and ends in the table lookup
getZipLocationCall ==
  /\ op = "getZipLocation" /\ pc = "start"
  /\ \E fetch \in FetchOutcomes :
       /\ queries' = <<fetch>>
       /\ result' = LocationResult(getZipLocation(params.zipCode, fetch = "response"))
  /\ pc' = "done"
  /\ UNCHANGED <<envVars, contactVars, profiles, op, params, conditions, request, radiusVars, loopVars,
                 countWhere, total>>

CityInputs ==
  [city : {TxtAkron, TxtMesa, TxtTroy},
   state : {None, <<"o","h">>, <<"A","R">>, <<"A","Z">>, StNY}]

\* getCityLocation, lines 109-186: a fetch that fails, or a response
\* without results, ends in null
getCityLocationCall ==
  /\ op = "getCityLocation" /\ pc = "start"
  /\ \E fetch \in FetchOutcomes :
       /\ queries' = <<fetch>>
       /\ result' = LocationResult(getCityLocation(params.city, params.state,
                                                   fetch = "response"))
  /\ pc' = "done"
  /\ UNCHANGED <<envVars, contactVars, profiles, op, params, conditions, request, radiusVars, loopVars,
                 countWhere, total>>

\* ------------------------------------------------------------------------
\* The contact endpoint (POST /api/contact) and sendContactEmail
\* ------------------------------------------------------------------------
\* a JSON value of a body field: absent (None), the empty string, a string,
\* a non-zero number
JNum == <<"<number>">>
FieldValues == {None, <<>>, <<"x">>, JNum}

DefaultEmail == <<"i","n","f","o","@">>
OfficeEmail == <<"t","u","l","s","a","@">>

\* readable is FALSE when request.json() rejects, or yields null so that
\* the destructuring throws
ContactInputs ==
  [readable : {TRUE},
   name : FieldValues, email : FieldValues, comment : FieldValues,
   profileName : FieldValues,
   location : {None, TxtTulsa},
   officeEmail : {None, <<>>, <<"o","@">>}]
  \cup
  [readable : {FALSE},
   name : {None}, email : {None}, comment : {None}, profileName : {None},
   location : {None}, officeEmail : {None}]

Response(status, success) == [kind |-> "response", status |-> status, success |-> success]

RequiredFieldsPresentButComment(p) ==
  Truthy(p.name) /\ Truthy(p.email) /\ Truthy(p.profileName)

\* !name || !email || !comment || !profileName, negated
RequiredFieldsPresent(p) ==
  Truthy(p.name) /\ Truthy(p.email) /\ Truthy(p.comment) /\ Truthy(p.profileName)

\* lines 13-35: the body is read and the required fields are validated
PostValidate ==
  /\ op = "POST" /\ pc = "start"
  /\ IF ~params.readable
     THEN /\ result' = Response(500, FALSE)
          /\ pc' = "done"
          /\ toEmail' = toEmail
     ELSE IF ~RequiredFieldsPresent(params)
     THEN /\ result' = Response(400, FALSE)
          /\ pc' = "done"
          /\ toEmail' = toEmail
     ELSE /\ result' = result
          /\ pc' = "lookup"
          /\ toEmail' = params.officeEmail
  /\ UNCHANGED <<envVars, emailParams, emailResult, profiles, op, params, conditions, request,
                 radiusVars, loopVars, queries, countWhere, total>>

\* lines 36-43: the office address of the location; a lookup that rejects
\* is logged and leaves the provided address
PostLookup ==
  /\ op = "POST" /\ pc = "lookup"
  /\ IF Truthy(params.location)
     THEN \E found \in BOOLEAN :
            /\ toEmail' = IF found THEN OfficeEmail ELSE toEmail
            /\ queries' = queries \o <<"getLocationEmail">>
                            \o (IF found THEN <<>> ELSE <<"warnLocationEmail">>)
     ELSE UNCHANGED <<queries, toEmail>>
  /\ pc' = "send"
  /\ UNCHANGED <<envVars, emailParams, emailResult, profiles, op, params, conditions, request,
                 radiusVars, loopVars, countWhere, total, result>>

\* sendContactEmail, send-email.ts lines 36-112: without SMTP credentials
\* nothing is sent; the message body is built with comment.replace, which
\* throws for a comment that is not a string; a sendMail that rejects is
\* caught
sendContactEmail(p, smtpConfigured, sendMailOk) ==
  IF ~smtpConfigured THEN "notConfigured"
  ELSE IF p.comment = None \/ p.comment = JNum THEN "throws"
  ELSE IF sendMailOk THEN "sent" ELSE "failed"

toEmailWithoutDefault(address) == address

\* line 56: toEmail || 'info@intersolutions.com'
toEmailOrDefault(address) == IF Truthy(address) THEN address ELSE DefaultEmail

\* lines 54-80: the email is handed to sendContactEmail; its failure is
\* logged and the success response is returned; an exception ends in the
\* 500 response of the outer catch
PostSend ==
  /\ op = "POST" /\ pc = "send"
  /\ \E smtpConfigured \in BOOLEAN, sendMailOk \in BOOLEAN :
       LET p == [toEmail |-> toEmailOrDefault(toEmail),
                 location |-> IF Truthy(params.location) THEN params.location
                              ELSE <<"N","o","t"," ","s","p","e","c","i","f","i","e","d">>,
                 comment |-> params.comment]
           outcome == sendContactEmail(p, smtpConfigured, sendMailOk)
       IN /\ emailParams' = p
          /\ emailResult' = outcome
          /\ queries' = queries \o <<"sendContactEmail">>
                          \o (IF outcome \in {"sent", "failed"} THEN <<"sendMail">> ELSE <<>>)
                          \o (IF outcome \in {"notConfigured", "failed"}
                              THEN <<"warnEmailNotSent">> ELSE <<>>)
          /\ result' = IF outcome = "throws" THEN Response(500, FALSE)
                       ELSE Response(200, TRUE)
  /\ pc' = "done"
  /\ UNCHANGED <<envVars, toEmail, profiles, op, params, conditions, request, radiusVars,
                 loopVars, countWhere, total>>

\* ------------------------------------------------------------------------
\* getProfileById and the metadata reads
\* ------------------------------------------------------------------------
ProfileResult(row) == [kind |-> "profile", profile |-> row]
ValuesResult(values) == [kind |-> "values", values |-> values]
NoParams == <<>>

\* the ids a caller asks for and a sync batch names: the rows of the
\* table, the rows a batch inserts, an id that is nowhere
ProfileIds == 1..7

getProfileByIdAnyRow(table, id) ==
  IF \E i \in DOMAIN table : table[i].id = id
  THEN ProfileResult(table[CHOOSE i \in DOMAIN table : table[i].id = id])
  ELSE NullResult

\* lines 215-230: SELECT * FROM profiles WHERE id = @id AND is_active = 1
getProfileById(table, id) ==
  LET recordset == {i \in DOMAIN table : table[i].id = id /\ table[i].is_active}
  IN IF recordset = {} THEN NullResult
     ELSE ProfileResult(table[CHOOSE i \in recordset : TRUE])

getProfileByIdCall ==
  /\ op = "getProfileById" /\ pc = "start"
  /\ result' = getProfileById(profiles, params.id)
  /\ queries' = Append(queries, "getProfileById")
  /\ pc' = "done"
  /\ UNCHANGED <<envVars, contactVars, profiles, op, params, conditions, request, radiusVars,
                 loopVars, countWhere, total>>

\* FROM profiles WHERE is_active = 1
ActiveRows(table) == {table[i] : i \in {j \in DOMAIN table : table[j].is_active}}

\* SELECT DISTINCT ... ORDER BY key: every order of the distinct values
\* that is sorted on the key
OrderedValues(S, key) ==
  LET n == Cardinality(S)
  IN {s \in [1..n -> S] :
        /\ \A i, j \in 1..n : i # j => s[i] # s[j]
        /\ \A i \in 1..(n - 1) : StrLeq(key[s[i]], key[s[i + 1]])}

\* lines 691-702
getProfessionTypes(table) ==
  LET S == {r.profession_type : r \in ActiveRows(table)}
  IN OrderedValues(S, [v \in S |-> v])

\* lines 707-721
getStates(table) ==
  LET S == {[code |-> r.state, name |-> r.state] : r \in ActiveRows(table)}
  IN OrderedValues(S, [v \in S |-> v.code])

\* lines 726-741
getOffices(table) ==
  LET S == {[name |-> r.office, city |-> r.city, state |-> r.state] :
              r \in ActiveRows(table)}
  IN OrderedValues(S, [v \in S |-> v.name])

getProfessionTypesCall ==
  /\ op = "getProfessionTypes" /\ pc = "start"
  /\ \E s \in getProfessionTypes(profiles) : result' = ValuesResult(s)
  /\ queries' = Append(queries, "getProfessionTypes")
  /\ pc' = "done"
  /\ UNCHANGED <<envVars, contactVars, profiles, op, params, conditions, request, radiusVars,
                 loopVars, countWhere, total>>

getStatesCall ==
  /\ op = "getStates" /\ pc = "start"
  /\ \E s \in getStates(profiles) : result' = ValuesResult(s)
  /\ queries' = Append(queries, "getStates")
  /\ pc' = "done"
  /\ UNCHANGED <<envVars, contactVars, profiles, op, params, conditions, request, radiusVars,
                 loopVars, countWhere, total>>

getOfficesCall ==
  /\ op = "getOffices" /\ pc = "start"
  /\ \E s \in getOffices(profiles) : result' = ValuesResult(s)
  /\ queries' = Append(queries, "getOffices")
  /\ pc' = "done"
  /\ UNCHANGED <<envVars, contactVars, profiles, op, params, conditions, request, radiusVars,
                 loopVars, countWhere, total>>

\* ------------------------------------------------------------------------
\* getZipLocation and getCityLocation, one await at a time: the fetch with
\* its 10 second timer, then the body of the response
\* ------------------------------------------------------------------------
IsGeocoderCall == op \in {"getZipLocation", "getCityLocation"}

\* what the call returns when the service answered with a body (TRUE) and
\* when its try block did not get that far (FALSE)
GeocoderValue(apiOk) ==
  IF op = "getZipLocation" THEN getZipLocation(params.zipCode, apiOk)
  ELSE getCityLocation(params.city, params.state, apiOk)

geocoderVars == <<clientVars, writerVars, lookupVars, contactVars, profiles, op, params, conditions,
                  request, radiusVars, loopVars, countWhere, total>>

\* lines 57-63 and 117-134: the timer is set and the fetch is issued
FetchStart ==
  /\ IsGeocoderCall /\ pc = "start"
  /\ timer' = "armed"
  /\ queries' = <<"fetch">>
  /\ pc' = "fetching"
  /\ UNCHANGED <<geocoderVars, result>>

\* lines 61-67, 81-85 and 134-138: the fetch resolves once the status line
\* and the headers are there; the timer is cleared; a status other than
\* 2xx ends in the fallback
ResponseArrives ==
  /\ IsGeocoderCall /\ pc = "fetching"
  /\ timer' = "cleared"
  /\ \E ok \in BOOLEAN :
       IF ok
       THEN /\ queries' = Append(queries, "response")
            /\ pc' = "readingBody"
            /\ result' = result
       ELSE /\ queries' = Append(queries, "status")
            /\ pc' = "done"
            /\ result' = LocationResult(GeocoderValue(FALSE))
  /\ UNCHANGED geocoderVars

\* lines 86-93 and 181-183: the fetch rejects with a network error
FetchRejects ==
  /\ IsGeocoderCall /\ pc = "fetching"
  /\ queries' = Append(queries, "networkError")
  /\ result' = LocationResult(GeocoderValue(FALSE))
  /\ pc' = "done"
  /\ UNCHANGED <<geocoderVars, timer>>

\* lines 58 and 118: after 10 seconds controller.abort() rejects the
\* pending fetch with an AbortError
TimerFires ==
  /\ IsGeocoderCall /\ pc = "fetching" /\ timer = "armed"
  /\ timer' = "fired"
  /\ queries' = Append(queries, "abort")
  /\ result' = LocationResult(GeocoderValue(FALSE))
  /\ pc' = "done"
  /\ UNCHANGED geocoderVars

\* lines 68-80 and 139-179: response.json() resolves with the parsed body,
\* or rejects
BodyArrives ==
  /\ IsGeocoderCall /\ pc = "readingBody"
  /\ \E parsed \in BOOLEAN :
       /\ queries' = Append(queries, IF parsed THEN "json" ELSE "jsonError")
       /\ result' = LocationResult(GeocoderValue(parsed))
  /\ pc' = "done"
  /\ UNCHANGED <<geocoderVars, timer>>

\* ------------------------------------------------------------------------
\* ProfileResults (client component): handleShowMore, one await at a time
\* ------------------------------------------------------------------------
BATCH_SIZE == 100

\* the ids of the search result on the server, in its order
ServerIds(totalCount) == [i \in 1..totalCount |-> i]

\* the props of the component and the bookmark filter of the store
ClientInputs ==
  [profiles : {ServerIds(BATCH_SIZE)},
   totalCount : {BATCH_SIZE, BATCH_SIZE + 50},
   initialDisplay : {5, BATCH_SIZE - 5},
   showBookmarksOnly : BOOLEAN,
   bookmarkedIds : {{1, 2, 3, 4, 5, 6, 7}}]

\* lines 30-39: useState(initialProfiles), useState(false),
\* useState(initialDisplay)
NoClient ==
  /\ allProfiles = <<>>
  /\ displayCount = 0
  /\ isLoadingMore = FALSE
  /\ inFlight = <<>>

\* invocations that can await their fetch at the same time
MaxInFlight == 2

\* lines 49-72: an invocation of handleShowMore up to its await; the
\* callback sees allProfiles and displayCount of the current render, and
\* nothing in it looks at isLoadingMore
ShowMoreInvoked ==
  /\ op = "handleShowMore"
  /\ Len(inFlight) < MaxInFlight
  /\ IF params.showBookmarksOnly
     THEN /\ LET \* lines 34-36
                 filteredProfiles_ ==
                   SelectSeq(allProfiles, LAMBDA id : id \in params.bookmarkedIds)
             IN displayCount' = Min(displayCount + 5, Len(filteredProfiles_))
          /\ displayCount' # displayCount
          /\ UNCHANGED <<allProfiles, isLoadingMore, inFlight>>
     ELSE IF displayCount + 5 <= Len(allProfiles)
     THEN /\ displayCount' = displayCount + 5
          /\ UNCHANGED <<allProfiles, isLoadingMore, inFlight>>
     ELSE IF Len(allProfiles) < params.totalCount
     THEN /\ isLoadingMore' = TRUE
          /\ inFlight' = Append(inFlight,
                                [nextPage |-> (Len(allProfiles) \div BATCH_SIZE) + 1,
                                 existingIds |-> Range(allProfiles)])
          /\ UNCHANGED <<allProfiles, displayCount>>
     ELSE /\ displayCount' = Min(displayCount + 5, params.totalCount)
          /\ displayCount' # displayCount
          /\ UNCHANGED <<allProfiles, isLoadingMore, inFlight>>
  /\ UNCHANGED <<writerVars, lookupVars, timer, contactVars, profiles, op, pc, params, conditions,
                 request, radiusVars, loopVars, queries, countWhere, total, result>>

\* lines 72-92: the fetch of one invocation settles; a page that came is
\* filtered against the ids the invocation saw when it started and is
\* appended to the current list; then five more are shown
ShowMoreFetched ==
  /\ op = "handleShowMore"
  /\ \E k \in 1..Len(inFlight), ok \in BOOLEAN :
       LET call == inFlight[k]
           \* /api/profiles/search?...&page=nextPage&limit=BATCH_SIZE
           ServerPage(totalCount, nextPage) ==
             SubSeq(ServerIds(totalCount), (nextPage - 1) * BATCH_SIZE + 1,
                    Min(totalCount, nextPage * BATCH_SIZE))
           data == IF ok THEN ServerPage(params.totalCount, call.nextPage) ELSE <<>>
           newProfiles == SelectSeq(data, LAMBDA id : id \notin call.existingIds)
       IN /\ allProfiles' = allProfiles \o newProfiles
          /\ inFlight' = [i \in 1..(Len(inFlight) - 1) |->
                            IF i < k THEN inFlight[i] ELSE inFlight[i + 1]]
  /\ isLoadingMore' = FALSE
  /\ displayCount' = Min(displayCount + 5, params.totalCount)
  /\ UNCHANGED <<writerVars, lookupVars, timer, contactVars, profiles, op, pc, params, conditions,
                 request, radiusVars, loopVars, queries, countWhere, total, result>>

\* ------------------------------------------------------------------------
\* calculateDistance called on two points
\* ------------------------------------------------------------------------
calculateDistanceCall ==
  /\ op = "calculateDistance" /\ pc = "start"
  /\ result' = [kind |-> "distance",
                miles |-> calculateDistance(params.lat1, params.lng1,
                                            params.lat2, params.lng2)]
  /\ pc' = "done"
  /\ UNCHANGED <<envVars, contactVars, profiles, op, params, conditions, request, radiusVars,
                 loopVars, queries, countWhere, total>>

\* ------------------------------------------------------------------------
\* getProfilesWithinRadius, one lookup of its Promise.all at a time
\* ------------------------------------------------------------------------
ProfileData(ids) ==
  [i \in 1..Len(ids) |->
     [id |-> ids[i], zip_code |-> InitialProfiles[ids[i]].zip_code,
      city |-> InitialProfiles[ids[i]].city, state |-> InitialProfiles[ids[i]].state]]

WithinRadiusInputs ==
  [centerLocation : {ZipCle, ZipBad},
   radiusMiles : {25, 50},
   profileData : {ProfileData(<<1, 5, 4>>), ProfileData(<<3, 1>>)},
   centerCoords : {NoLoc, getCityLocation(TxtAkron, StOH, TRUE)}]

IdsResult(ids) == [kind |-> "ids", ids |-> ids]

Pending == [state |-> "pending"]

\* lines 367-386: the center is resolved, then profileData.map starts one
\* lookup per candidate
WithinRadiusBegin ==
  /\ op = "getProfilesWithinRadius" /\ pc = "start"
  /\ \E apiCenter \in BOOLEAN :
       LET center == IF params.centerCoords.found THEN params.centerCoords
                     ELSE getZipLocation(params.centerLocation, apiCenter)
       IN /\ centerLocationData' = center
          /\ IF ~center.found
             THEN /\ result' = IdsResult(<<>>)
                  /\ pc' = "done"
                  /\ lookups' = lookups
             ELSE /\ result' = result
                  /\ pc' = "awaitAll"
                  /\ lookups' = [i \in 1..Len(params.profileData) |-> Pending]
  /\ UNCHANGED <<clientVars, timer, settled, writerVars, contactVars, profiles, op, params, conditions,
                 request, radiusVars, loopVars, queries, countWhere, total>>

\* lines 377-385: the lookup of one candidate settles, with a location or
\* with null
LookupSettles ==
  /\ op = "getProfilesWithinRadius" /\ pc = "awaitAll"
  /\ \E i \in 1..Len(lookups), apiOk \in BOOLEAN :
       /\ lookups[i] = Pending
       /\ lookups' = [lookups EXCEPT
                        ![i] = [state |-> "settled", id |-> params.profileData[i].id,
                                location |-> getZipLocation(params.profileData[i].zip_code,
                                                            apiOk),
                                zipCode |-> params.profileData[i].zip_code]]
       /\ settled' = Append(settled, i)
  /\ UNCHANGED <<clientVars, timer, centerLocationData, writerVars, contactVars, profiles, op, pc, params,
                 conditions, request, radiusVars, loopVars, queries, countWhere, total, result>>

PromiseAllInSettlingOrder(promises, order) ==
  [k \in 1..Len(promises) |-> promises[order[k]]]

\* Promise.all: the values in the order of the promises
PromiseAll(promises, order) == [k \in 1..Len(promises) |-> promises[k]]

\* lines 376 and 394-414: every lookup has settled; filter by distance, map
\* to the ids
WithinRadiusFinish ==
  /\ op = "getProfilesWithinRadius" /\ pc = "awaitAll"
  /\ \A i \in 1..Len(lookups) : lookups[i] # Pending
  /\ LET profileLocations == PromiseAll(lookups, settled)
         matches(pl) ==
           /\ pl.location.found
           /\ WithinMiles(calculateDistance(centerLocationData.lat, centerLocationData.lng,
                                            pl.location.lat, pl.location.lng),
                          params.radiusMiles)
     IN result' = IdsResult(Ids(SelectSeq(profileLocations, matches)))
  /\ pc' = "done"
  /\ UNCHANGED <<envVars, contactVars, profiles, op, params, conditions, request, radiusVars,
                 loopVars, queries, countWhere, total>>

\* ------------------------------------------------------------------------
\* insertProfiles and deleteProfiles (the sync service), one statement of
\* their loops at a time
\* ------------------------------------------------------------------------

\* a new profile in Akron that the keyword mgr finds
NewProfile ==
  Row(6, <<"F","l","o">>, <<"F">>, TxtAkron, StOH, ZipAkr, TxtMgr, TxtAkron,
      <<"M","a","i","n","t">>, TRUE)


callerVars == <<clientVars, timer, lookupVars, contactVars, op, pc, params, conditions, request, radiusVars, loopVars,
                queries, countWhere, total, result>>

\* lines 749-774: one INSERT, with is_active 1; the primary key rejects an
\* id that the table has, which ends the call
insertProfilesStep ==
  /\ writer.op = "insertProfiles" /\ writer.items # <<>>
  /\ LET profile == Head(writer.items)
     IN IF \E i \in DOMAIN profiles : profiles[i].id = profile.id
        THEN /\ profiles' = profiles
             /\ writer' = [writer EXCEPT !.items = <<>>]
        ELSE /\ profiles' = Append(profiles, [profile EXCEPT !.is_active = TRUE])
             /\ writer' = [writer EXCEPT !.items = Tail(@)]
  /\ UNCHANGED <<deletedIds, callerVars>>

\* lines 825-831: UPDATE profiles SET is_active = 0 WHERE id = @id
deleteProfilesStep ==
  /\ writer.op = "deleteProfiles" /\ writer.items # <<>>
  /\ profiles' = [i \in DOMAIN profiles |->
                    IF profiles[i].id = Head(writer.items)
                    THEN [profiles[i] EXCEPT !.is_active = FALSE]
                    ELSE profiles[i]]
  /\ deletedIds' = deletedIds \cup {Head(writer.items)}
  /\ writer' = [writer EXCEPT !.items = Tail(@)]
  /\ UNCHANGED callerVars

\* ------------------------------------------------------------------------
\* Specification
\* ------------------------------------------------------------------------
Init ==
  /\ profiles = InitialProfiles
  /\ pc = "start"
  /\ \/ op = "searchProfiles"
        /\ params \in SearchInputs \cup FilterInputs \cup RadiusFilterInputs
     \/ op = "getAllProfiles" /\ params \in AllInputs
     \/ op = "spatialProfileSearch" /\ params \in SpatialInputs
     \/ op = "getZipLocation" /\ params \in ZipInputs
     \/ op = "getCityLocation" /\ params \in CityInputs
     \/ op = "POST" /\ params \in ContactInputs
     \/ op = "getProfileById" /\ params \in [id : ProfileIds]
     \/ op \in {"getProfessionTypes", "getStates", "getOffices"} /\ params = NoParams
     \/ op = "calculateDistance"
        /\ params \in {[lat1 |-> Points[i][1], lng1 |-> Points[i][2],
                         lat2 |-> Points[j][1], lng2 |-> Points[j][2]] :
                          i, j \in 1..Len(Points)}
     \/ op = "getProfilesWithinRadius" /\ params \in WithinRadiusInputs
     \/ op = "handleShowMore" /\ params \in ClientInputs
  /\ writer = NoWriter
  /\ InitLocals
  /\ IF op = "handleShowMore"
     THEN /\ allProfiles = params.profiles
          /\ displayCount = params.initialDisplay
          /\ isLoadingMore = FALSE
          /\ inFlight = <<>>
     ELSE NoClient

Next ==
  \/ SearchBegin
  \/ BulkTier
  \/ ZipPreFilter
  \/ PreFilterFails
  \/ ZipRadiusCenter
  \/ RadiusError
  \/ CityPreFilter
  \/ CityRadius
  \/ MainCount
  \/ MainPage
  \/ QueryFails
  \/ GetAllCount
  \/ GetAllPage
  \/ spatialProfileSearch
  \/ SpatialFails
  \/ getZipLocationCall
  \/ getCityLocationCall
  \/ PostValidate
  \/ PostLookup
  \/ PostSend
  \/ getProfileByIdCall
  \/ getProfessionTypesCall
  \/ getStatesCall
  \/ getOfficesCall
  \/ calculateDistanceCall
  \/ WithinRadiusBegin
  \/ LookupSettles
  \/ WithinRadiusFinish
  \/ ShowMoreInvoked
  \/ ShowMoreFetched

Spec == Init /\ [][Next]_vars

\* the read operations of one caller while a sync-service call runs
ConcurrentSearchInputs ==
  [query : {None},
   keywords : {<<>>, <<TxtMgr>>},
   professionTypes : {<<>>},
   city : {None, <<"a","k","r","o","n">>},
   state : {None, <<"o","h">>},
   zipCode : {None, ZipCle},
   zipCodes : {<<>>},
   radius : {<<>>, <<25>>},
   office : {None},
   page : 1..MaxPage,
   limit : {MaxLimit},
   sortBy : {"name"},
   sortDirection : {"asc"}]

InitConcurrent ==
  /\ profiles = InitialProfiles
  /\ pc = "start"
  /\ \/ op = "searchProfiles" /\ params \in ConcurrentSearchInputs
     \/ op = "getAllProfiles" /\ params \in {p \in AllInputs : p.sortBy = "name" /\ p.sortDirection = "asc"}
     \/ op = "getProfileById" /\ params \in [id : ProfileIds]
     \/ op \in {"getProfessionTypes", "getStates", "getOffices"} /\ params = NoParams
  /\ writer \in
       [op : {"insertProfiles"}, items : {<<NewProfile>>, <<NewProfile, NewProfile>>}]
       \cup [op : {"deleteProfiles"}, items : {<<1>>, <<3, 1>>, <<7>>}]
  /\ InitLocals
  /\ NoClient

NextConcurrent ==
  \/ SearchBegin
  \/ BulkTier
  \/ ZipPreFilter
  \/ PreFilterFails
  \/ ZipRadiusCenter
  \/ RadiusError
  \/ CityPreFilter
  \/ CityRadius
  \/ MainCount
  \/ MainPage
  \/ QueryFails
  \/ GetAllCount
  \/ GetAllPage
  \/ getProfileByIdCall
  \/ getProfessionTypesCall
  \/ getStatesCall
  \/ getOfficesCall
  \/ insertProfilesStep
  \/ deleteProfilesStep

SpecConcurrent == InitConcurrent /\ [][NextConcurrent]_vars

\* the geocoder calls, await by await.  The runtime runs the code that is
\* ready and fires a timer that is set; when, and whether, the service
\* sends its headers or its body is up to the service.
InitLive ==
  /\ profiles = InitialProfiles
  /\ pc = "start"
  /\ \/ op = "getZipLocation" /\ params \in ZipInputs
     \/ op = "getCityLocation" /\ params \in CityInputs
  /\ writer = NoWriter
  /\ InitLocals
  /\ NoClient

NextLive ==
  \/ FetchStart
  \/ ResponseArrives
  \/ FetchRejects
  \/ TimerFires
  \/ BodyArrives

SpecLive ==
  InitLive /\ [][NextLive]_vars /\ WF_vars(FetchStart) /\ WF_vars(TimerFires)

TypeOK ==
  /\ pc \in {"start", "bulkTier", "zipPreFilter", "zipRadius", "cityPreFilter",
             "cityRadius", "main", "page", "lookup", "send", "awaitAll", "fetching",
             "readingBody", "done"}
  /\ op \in {"searchProfiles", "getAllProfiles", "spatialProfileSearch",
             "getZipLocation", "getCityLocation", "POST", "getProfileById",
             "getProfessionTypes", "getStates", "getOffices", "calculateDistance",
             "getProfilesWithinRadius", "handleShowMore"}
  /\ result.kind \in {"none", "page", "error", "null", "location", "response",
                      "profile", "values", "distance", "ids"}
  /\ writer.op \in {"none", "insertProfiles", "deleteProfiles"}
  /\ \A i \in DOMAIN profiles : profiles[i].id = i

\* ------------------------------------------------------------------------
\* Properties
\* ------------------------------------------------------------------------
Issued(q) == \E i \in 1..Len(queries) : queries[i] = q

IsSearch == op = "searchProfiles"

\* a radius search centered on postal codes
ZipRadiusSearch == IsSearch /\ Positive(params.radius) /\ Len(CenterZipCodes(params)) > 0

\* the main query has been built and its count query has run
MainRan == Issued("count")

\* the coordinates a postal code can geocode to, by the lookup or the table
PossibleLocations(zip) ==
  {l \in {getZipLocation(zip, TRUE), getZipLocation(zip, FALSE)} : l.found}

\* the profile can be within the radius of one of the centers
CanBeInRadius(id) ==
  \E i \in 1..Len(centerZipCodes) :
    \E c \in PossibleLocations(centerZipCodes[i]) :
      \E l \in PossibleLocations(profiles[id].zip_code) :
        calculateDistance(c.lat, c.lng, l.lat, l.lng) <= params.radius[1] * 100

HasRadiusCondition(conds) ==
  \E i \in 1..Len(conds) :
    \/ conds[i].kind = "idIn"
    \/ conds[i].kind = "zipIn" /\ conds[i].names[1][1] = "radiusZip"

HasStateCondition(conds) == \E i \in 1..Len(conds) : conds[i].kind = "stateEq"

\* C1: in a radius search centered on postal codes, every main query that
\* runs carries the radius result as a condition, and a returned page holds
\* no profile that lies outside the radius of every center.
C1_RadiusAlwaysConstrains ==
  (ZipRadiusSearch /\ MainRan) =>
     /\ HasRadiusCondition(countWhere.conds)
     /\ result.kind = "page" => \A i \in 1..Len(result.profiles) :
                                   CanBeInRadius(result.profiles[i])

\* C2: a radius search that was attempted and did not succeed runs its main
\* query with a state-equality condition whenever a state was supplied or
\* was derived from the first center postal code.
C2_StateFallback ==
  (IsSearch /\ MainRan /\ radiusSearchAttempted /\ ~radiusSearchSucceeded
     /\ (Truthy(params.state) \/ Truthy(stateFilter)))
  => HasStateCondition(countWhere.conds)

\* ------------------------------------------------------------------------
\* C3: plain location predicates of a search without a positive radius
\* ------------------------------------------------------------------------
\* text contains the needle, compared without regard to case
Contains(text, needle) ==
  \E k \in 0..(Len(text) - Len(needle)) :
    ToUpperCase(SubSeq(text, k + 1, k + Len(needle))) = ToUpperCase(needle)

\* the row passes the keyword and profession filters of the main query
OtherFiltersOk(row, p) ==
  LET b == BaseFilters(p, <<>>, <<>>, "keyword", "profession")
  IN \A i \in 1..Len(b.conds) : Sat(b.conds[i], row, b.req)

PostalOk(row, p) ==
  IF Len(p.zipCodes) > 0 THEN \E i \in 1..Len(p.zipCodes) : row.zip_code = p.zipCodes[i]
  ELSE IF Truthy(p.zipCode) THEN row.zip_code = p.zipCode
  ELSE TRUE

PlainMatches(p) ==
  {id \in DOMAIN profiles :
     /\ profiles[id].is_active
     /\ OtherFiltersOk(profiles[id], p)
     /\ PostalOk(profiles[id], p)
     /\ Truthy(p.city) => Contains(profiles[id].city, p.city)
     /\ Truthy(p.state) => profiles[id].state = ToUpperCase(p.state)
     /\ Truthy(p.office) => profiles[id].office = p.office}

\* C3: a search whose radius is absent, zero or negative attempts no radius
\* resolution (no geocoding call, no pre-filter query), and its main query
\* selects exactly the active profiles that satisfy the city contains-match,
\* the equality with the upper-cased state, the postal-code predicate and
\* the other filters.
C3_NoRadiusPlainFilters ==
  (IsSearch /\ ~(params.radius # <<>> /\ params.radius[1] > 0)) =>
     /\ ~radiusSearchAttempted
     /\ ~Issued("geocode") /\ ~Issued("preFilter")
     /\ pc \notin {"bulkTier", "zipPreFilter", "zipRadius", "cityPreFilter", "cityRadius"}
     /\ MainRan =>
          /\ Matching(profiles, countWhere.conds, countWhere.req) = PlainMatches(params)
          /\ total = Cardinality(PlainMatches(params))
          /\ Truthy(params.state) =>
               ParamValue(countWhere.req, <<"state", 0>>) = ToUpperCase(params.state)
     /\ result.kind = "page" => Range(result.profiles) \subseteq PlainMatches(params)

C3_Witness ==
  /\ IsSearch /\ pc = "done" /\ result.kind = "page"
  /\ params.radius = <<-5>>
  /\ Truthy(params.state) /\ Len(params.zipCodes) > 0
  /\ result.total = 1 /\ Len(result.profiles) = 1

\* ------------------------------------------------------------------------
\* C4, C5: the per-record geocode tier
\* ------------------------------------------------------------------------
\* candidate i of a logged getProfilesWithinRadius call geocoded and lies
\* within the radius of the center of that call
LoggedWithin(e, i) ==
  /\ e.centerData.found
  /\ e.locations[i].found
  /\ calculateDistance(e.centerData.lat, e.centerData.lng,
                       e.locations[i].lat, e.locations[i].lng)
       <= params.radius[1] * 100

IsSubsequenceOfCandidates(ids) ==
  \A i, j \in 1..Len(ids) :
    i < j => \E a, b \in 1..Len(filteredProfiles) :
               a < b /\ filteredProfiles[a].id = ids[i] /\ filteredProfiles[b].id = ids[j]

\* C4: every getProfilesWithinRadius call with a geocodable center returns
\* exactly the ids of the candidates whose postal code geocoded and whose
\* distance to the center is at most the radius, in candidate order.
C4_WithinRadiusExact ==
  IsSearch =>
    \A k \in 1..Len(geoLog) :
      geoLog[k].centerData.found =>
        /\ Range(geoLog[k].ids) =
             {filteredProfiles[i].id : i \in {j \in 1..Len(filteredProfiles) :
                                                LoggedWithin(geoLog[k], j)}}
        /\ IsSubsequenceOfCandidates(geoLog[k].ids)

\* a call that kept one candidate, dropped one for its distance and dropped
\* one that did not geocode
C4_Witness ==
  /\ IsSearch
  /\ \E k \in 1..Len(geoLog) :
       /\ geoLog[k].centerData.found
       /\ Len(geoLog[k].ids) > 0
       /\ \E i \in 1..Len(filteredProfiles) : ~geoLog[k].locations[i].found
       /\ \E i \in 1..Len(filteredProfiles) :
            geoLog[k].locations[i].found /\ ~LoggedWithin(geoLog[k], i)

\* the per-record tier of the postal-code path ran over all its centers
ZipTierCompleted ==
  /\ IsSearch /\ Positive(params.radius)
  /\ Len(centerZipCodes) > 0
  /\ Len(geoLog) = Len(centerZipCodes)

InputCenters(p) ==
  (IF Truthy(p.zipCode) THEN {p.zipCode} ELSE {}) \cup Range(p.zipCodes)

NoDuplicates(s) == \A i, j \in 1..Len(s) : i # j => s[i] # s[j]

\* C5: the centers are the de-duplicated union of zipCode and zipCodes, and
\* when the per-record tier has run over all of them the kept ids are
\* exactly the candidates within the radius of at least one center, each
\* once.
C5_UnionOverCenters ==
  (IsSearch /\ Positive(params.radius) /\ pc # "start") =>
     /\ Range(centerZipCodes) = InputCenters(params)
     /\ NoDuplicates(centerZipCodes)
     /\ ZipTierCompleted =>
          /\ Range(radiusFilteredIds) =
               {filteredProfiles[i].id : i \in {j \in 1..Len(filteredProfiles) :
                  \E k \in 1..Len(geoLog) : LoggedWithin(geoLog[k], j)}}
          /\ NoDuplicates(radiusFilteredIds)

\* two centers, one candidate within the radius of the first only and
\* another within the radius of the second only
C5_Witness ==
  /\ ZipTierCompleted /\ Len(centerZipCodes) = 2
  /\ \E i, j \in 1..Len(filteredProfiles) :
       /\ LoggedWithin(geoLog[1], i) /\ ~LoggedWithin(geoLog[2], i)
       /\ LoggedWithin(geoLog[2], j) /\ ~LoggedWithin(geoLog[1], j)
       /\ filteredProfiles[i].id \in Range(radiusFilteredIds)
       /\ filteredProfiles[j].id \in Range(radiusFilteredIds)

\* ------------------------------------------------------------------------
\* C6, C7: the spatial-index tier
\* ------------------------------------------------------------------------
\* C6: when the store holds populated geography data, a radius search
\* centered on postal codes is resolved by the spatial query and never
\* enters the bulk postal-code tier or the per-record geocode tier.
C6_SpatialTierFirst ==
  (ZipRadiusSearch /\ hasGeoLocationData(GeoTable) /\ pc # "start") =>
     /\ pc \notin {"bulkTier", "zipPreFilter", "zipRadius"}
     /\ ~Issued("preFilter")
     /\ Issued("spatialCount")

\* the rows of the table that lie within the radius of one of the centers,
\* whichever way that center geocodes, and pass the other filters
WithinAnyCenter(p) ==
  {id \in DOMAIN GeoTable :
     \E i \in 1..Len(allCenterZips(p)) :
       /\ PossibleLocations(allCenterZips(p)[i]) # {}
       /\ \A c \in PossibleLocations(allCenterZips(p)[i]) :
            SpatialSat(GeoTable[id], p, c)}

\* C7: a spatial search that answers a page has selected every row within
\* the radius of any of its centers.
C7_SpatialAllCenters ==
  (op = "spatialProfileSearch" /\ pc = "done" /\ result.kind = "page") =>
     /\ WithinAnyCenter(params) \subseteq Range(geoLog[1].ids)
     /\ result.total >= Cardinality(WithinAnyCenter(params))

\* ------------------------------------------------------------------------
\* C8: count and page
\* ------------------------------------------------------------------------
IsCeil(q, tot, limit) ==
  /\ q * limit >= tot
  /\ (q - 1) * limit < tot \/ (q = 0 /\ tot = 0)

\* C8: every page returned by searchProfiles and getAllProfiles has
\* totalPages = ceil(total / limit) and at most limit rows; when the count
\* and page queries ran they used the same conditions and inputs, total is
\* the number of rows the predicate selects, and the page holds the rows
\* from offset (page - 1) * limit on: min(limit, max(0, total - offset))
\* distinct rows of the selection.
C8_CountPageConsistent ==
  (op \in {"searchProfiles", "getAllProfiles"} /\ pc = "done" /\ result.kind = "page") =>
     LET offset == (params.page - 1) * params.limit
         selected == Matching(profiles, countWhere.conds, countWhere.req)
     IN /\ IsCeil(result.totalPages, result.total, params.limit)
        /\ Len(result.profiles) <= params.limit
        /\ result.page = params.page /\ result.limit = params.limit
        /\ Issued("page") =>
             /\ conditions = countWhere.conds
             /\ request = countWhere.req \o << <<(<<"offset", 0>>), offset>>,
                                               <<(<<"limit", 0>>), params.limit>> >>
             /\ result.total = Cardinality(selected)
             /\ Range(result.profiles) \subseteq selected
             /\ NoDuplicates(result.profiles)
             /\ Len(result.profiles) = Min(params.limit, Max(0, result.total - offset))
             /\ offset = 0 /\ result.total <= params.limit =>
                  Range(result.profiles) = selected

\* a second page that is not full, behind a full first page
C8_Witness ==
  /\ pc = "done" /\ result.kind = "page" /\ Issued("page")
  /\ op = "searchProfiles"
  /\ params.page = 2 /\ params.limit = 2
  /\ result.total = 3 /\ Len(result.profiles) = 1 /\ result.totalPages = 2

\* ------------------------------------------------------------------------
\* C9, C10: the early empty page
\* ------------------------------------------------------------------------
IsEmptyPage(r, p) ==
  r = [kind |-> "page", profiles |-> <<>>, total |-> 0, page |-> p.page,
       limit |-> p.limit, totalPages |-> 0]

\* the search returned without running its main query
EarlyReturn == IsSearch /\ pc = "done" /\ result.kind = "page" /\ ~MainRan

\* C9: searchProfiles returns the empty page without running the main
\* query only if the pre-filter found no candidate or the candidates were
\* measured against a geocoded center; a center that does not geocode does
\* not by itself empty a search that has candidates.
C9_EmptyOnlyWhenLegitimate ==
  EarlyReturn =>
     \/ Len(filteredProfiles) = 0
     \/ \E k \in 1..Len(geoLog) : geoLog[k].centerData.found

\* radius resolution ran to its end and kept no identifier
ResolutionEndedEmpty ==
  /\ IsSearch /\ Positive(params.radius)
  /\ \/ Len(centerZipCodes) > 0 /\ Len(geoLog) = Len(centerZipCodes)
     \/ Len(centerZipCodes) = 0 /\ Truthy(params.city) /\ Len(geoLog) = 1
  /\ \A k \in 1..Len(geoLog) : Len(geoLog[k].ids) = 0

\* C10: when radius resolution ends with zero matching identifiers the
\* search is over with the empty page for the requested page and limit, and
\* neither the count query nor the page query was issued.
C10_EmptyShortCircuit ==
  ResolutionEndedEmpty =>
     /\ pc = "done"
     /\ IsEmptyPage(result, params)
     /\ ~Issued("count") /\ ~Issued("page")

\* candidates existed, a center geocoded, none was within the radius
C10_Witness ==
  /\ ResolutionEndedEmpty /\ pc = "done"
  /\ Len(filteredProfiles) > 0
  /\ params.page = 2
  /\ \E k \in 1..Len(geoLog) : geoLog[k].centerData.found

\* ------------------------------------------------------------------------
\* C11: the filters of a radius search
\* ------------------------------------------------------------------------
RadiusSearch == IsSearch /\ Positive(params.radius)

\* a plain city, state or postal-code predicate of a search without radius
HasPlainLocationCondition(conds) ==
  \E i \in 1..Len(conds) :
    /\ conds[i].kind \in {"cityLike", "stateEq", "zipEq", "zipIn"}
    /\ conds[i].names[1][1] \in {"city", "state", "zipCode", "zip"}

HasCondition(conds, kind, base) ==
  \E i \in 1..Len(conds) : conds[i].kind = kind /\ conds[i].names[1][1] = base

\* the active profiles that pass the keyword, profession and office filters
\* of the main query
PassesThreeFilters(p) ==
  LET b == BaseFilters(p, <<Cond("is_active", <<>>)>>, <<>>, "keyword", "profession")
      c == IF Truthy(p.office)
           THEN Append(b.conds, Cond("officeEq", <<(<<"office", 0>>)>>)) ELSE b.conds
      r == IF Truthy(p.office) THEN Input(b.req, <<"office", 0>>, p.office) ELSE b.req
  IN Matching(profiles, c, r)

\* C11: the main query of a radius search carries no plain city, state or
\* postal-code predicate; it carries the keyword, profession and office
\* filters, so it selects only profiles that pass them; and the candidates
\* of the radius pre-filter query pass the same three filters.
C11_RadiusKeepsOtherFilters ==
  RadiusSearch =>
     /\ Range(Ids(filteredProfiles)) \subseteq PassesThreeFilters(params)
     /\ MainRan =>
          /\ ~HasPlainLocationCondition(countWhere.conds)
          /\ Len(keywordsToSearch(params)) > 0 =>
               HasCondition(countWhere.conds, "keywords", "keyword")
          /\ Len(params.professionTypes) > 0 =>
               HasCondition(countWhere.conds, "professions", "profession")
          /\ Truthy(params.office) =>
               HasCondition(countWhere.conds, "officeEq", "office")
          /\ Matching(profiles, countWhere.conds, countWhere.req)
               \subseteq PassesThreeFilters(params)

\* a radius search with a city, a state, a keyword, a profession and an
\* office whose pre-filter found a candidate and whose main query returned
\* it
C11_Witness ==
  /\ RadiusSearch /\ MainRan /\ pc = "done" /\ result.kind = "page"
  /\ Len(params.keywords) > 0 /\ Len(params.professionTypes) > 0
  /\ Truthy(params.office) /\ Truthy(params.city) /\ Truthy(params.state)
  /\ Len(filteredProfiles) > 0 /\ Len(geoLog) = 1
  /\ Len(result.profiles) > 0
  /\ Cardinality(PassesThreeFilters(params)) < Cardinality({id \in DOMAIN profiles : profiles[id].is_active})

\* ------------------------------------------------------------------------
\* C12, C13: the keyword and profession filters
\* ------------------------------------------------------------------------
\* the keyword condition of the count query holds on the row
KeywordConditionHolds(row) ==
  \E i \in 1..Len(countWhere.conds) :
    /\ countWhere.conds[i].kind = "keywords"
    /\ Sat(countWhere.conds[i], row, countWhere.req)

\* at least one trimmed keyword is contained in at least one of the four
\* fields
ContainsSomeKeyword(row, keywords) ==
  \E i \in 1..Len(keywords) :
    \/ Contains(row.professional_summary, Trim(keywords[i]))
    \/ Contains(row.first_name, Trim(keywords[i]))
    \/ Contains(row.last_initial, Trim(keywords[i]))
    \/ Contains(row.city, Trim(keywords[i]))

OnlyKeywords(p) ==
  /\ Len(p.professionTypes) = 0 /\ ~Truthy(p.city) /\ ~Truthy(p.state)
  /\ ~Truthy(p.zipCode) /\ Len(p.zipCodes) = 0 /\ ~Truthy(p.office)
  /\ ~Positive(p.radius)

\* C12: with a non-empty keyword list an active profile satisfies the
\* keyword filter iff one of the trimmed keywords is contained in its
\* summary, first name, last initial or city; with no other filter total
\* counts exactly these profiles, and a page holds at most limit of them.
C12_KeywordContains ==
  (IsSearch /\ Len(params.keywords) > 0 /\ MainRan) =>
     /\ \A id \in DOMAIN profiles :
          profiles[id].is_active =>
            (KeywordConditionHolds(profiles[id])
               <=> ContainsSomeKeyword(profiles[id], params.keywords))
     /\ OnlyKeywords(params) =>
          total = Cardinality({id \in DOMAIN profiles :
                                 /\ profiles[id].is_active
                                 /\ ContainsSomeKeyword(profiles[id], params.keywords)})
     /\ result.kind = "page" => Len(result.profiles) <= params.limit

\* the profession condition of the count query holds on the row
ProfessionConditionHolds(row) ==
  \E i \in 1..Len(countWhere.conds) :
    /\ countWhere.conds[i].kind = "professions"
    /\ Sat(countWhere.conds[i], row, countWhere.req)

\* C13: with a non-empty profession-type list a profile satisfies the
\* profession filter iff its profession_type contains one of the listed
\* professions as a substring, case ignored.
C13_ProfessionContains ==
  (IsSearch /\ Len(params.professionTypes) > 0 /\ MainRan) =>
     \A id \in DOMAIN profiles :
       ProfessionConditionHolds(profiles[id])
         <=> \E i \in 1..Len(params.professionTypes) :
               Contains(profiles[id].profession_type, params.professionTypes[i])

\* ------------------------------------------------------------------------
\* C14: the postal-code predicates of a search without radius
\* ------------------------------------------------------------------------
InZipCodes(row, p) ==
  Len(p.zipCodes) > 0 => \E i \in 1..Len(p.zipCodes) : row.zip_code = p.zipCodes[i]

EqualsZipCode(row, p) == Truthy(p.zipCode) => row.zip_code = p.zipCode

\* C14: in a search without radius every profile the main query selects,
\* and so every returned profile, has its zip_code in the postal-code list
\* when one is supplied and equal to the single postal code when one is
\* supplied, both when both are supplied.
C14_PostalPredicates ==
  (IsSearch /\ ~Positive(params.radius) /\ MainRan) =>
     /\ \A id \in Matching(profiles, countWhere.conds, countWhere.req) :
          InZipCodes(profiles[id], params) /\ EqualsZipCode(profiles[id], params)
     /\ result.kind = "page" =>
          \A i \in 1..Len(result.profiles) :
            /\ InZipCodes(profiles[result.profiles[i]], params)
            /\ EqualsZipCode(profiles[result.profiles[i]], params)

\* ------------------------------------------------------------------------
\* C15: the sort
\* ------------------------------------------------------------------------
\* the field the sort key stands for
SortField(row, sortBy) ==
  IF sortBy = "location" THEN row.city
  ELSE IF sortBy = "profession" THEN row.profession_type
  ELSE row.first_name

\* the rows are monotone in the field in the direction
Monotone(ids, sortBy, sortDirection) ==
  \A i \in 1..(Len(ids) - 1) :
    IF sortDirection = "asc"
    THEN StrLeq(SortField(profiles[ids[i]], sortBy), SortField(profiles[ids[i + 1]], sortBy))
    ELSE StrLeq(SortField(profiles[ids[i + 1]], sortBy), SortField(profiles[ids[i]], sortBy))

\* C15: every page returned by getAllProfiles and by searchProfiles is
\* monotone, in the requested direction, in first_name for the sort key
\* name, city for location, profession_type for profession and first_name
\* for any other key.
C15_PageSorted ==
  (op \in {"searchProfiles", "getAllProfiles"} /\ pc = "done" /\ result.kind = "page") =>
     Monotone(result.profiles, params.sortBy, params.sortDirection)

\* a page of getAllProfiles by location, descending, whose two rows have
\* different cities and whose first names ascend
C15_Witness ==
  /\ op = "getAllProfiles" /\ pc = "done" /\ result.kind = "page"
  /\ params.sortBy = "location" /\ params.sortDirection = "desc"
  /\ Len(result.profiles) = 2
  /\ profiles[result.profiles[1]].city # profiles[result.profiles[2]].city
  /\ ~StrLeq(profiles[result.profiles[2]].first_name, profiles[result.profiles[1]].first_name)

\* ------------------------------------------------------------------------
\* C16: getZipLocation falls back to the static table
\* ------------------------------------------------------------------------
\* the lookup service yielded a coordinate
LookupYielded == queries[1] = "response" /\ ApiPlace(params.zipCode).found

ThreeDigits(zip) ==
  Len(zip) >= 3 /\ IsDigit(zip[1]) /\ IsDigit(zip[2]) /\ IsDigit(zip[3])

PrefixNumber(zip) == 100 * DigitVal(zip[1]) + 10 * DigitVal(zip[2]) + DigitVal(zip[3])

\* the table ranges that hold the three-digit prefix of the code
RangesOf(zip) ==
  {i \in 1..Len(zipRanges) :
     zipRanges[i][1] <= PrefixNumber(zip) /\ PrefixNumber(zip) <= zipRanges[i][2]}

IsTableEntry(loc, zip) ==
  /\ loc.found /\ loc.zip = zip
  /\ \E i \in 1..Len(zipRanges) : loc.lat = zipRanges[i][3] /\ loc.lng = zipRanges[i][4]

\* C16: getZipLocation answers for every postal-code string and never
\* rejects; when the lookup service yields no coordinate (network error,
\* abort, non-success status, response without a place) the answer is the
\* table entry of every range that holds the first three digits of the
\* code, and it is null when the code has fewer than three characters or
\* its prefix lies in no range.
C16_ZipFallback ==
  (op = "getZipLocation" /\ pc = "done") =>
     /\ result.kind = "location"
     /\ ~LookupYielded =>
          /\ Len(params.zipCode) < 3 => ~result.loc.found
          /\ ThreeDigits(params.zipCode) =>
               /\ result.loc.found <=> RangesOf(params.zipCode) # {}
               /\ \A i \in RangesOf(params.zipCode) :
                    /\ result.loc.lat = zipRanges[i][3]
                    /\ result.loc.lng = zipRanges[i][4]
                    /\ result.loc.zip = params.zipCode
          /\ result.loc.found => IsTableEntry(result.loc, params.zipCode)

\* a code the lookup service knows, answered from the table after an abort
C16_Witness ==
  /\ op = "getZipLocation" /\ pc = "done"
  /\ queries[1] = "abort" /\ ApiPlace(params.zipCode).found
  /\ result.loc.found /\ result.loc # ApiPlace(params.zipCode)

\* ------------------------------------------------------------------------
\* C17: getCityLocation and the requested state
\* ------------------------------------------------------------------------
\* postal abbreviations and names of the states that occur
UsStates ==
  << <<StOH, <<"O","h","i","o">> >>,
     <<StNY, <<"N","e","w"," ","Y","o","r","k">> >>,
     << <<"A","R">>, <<"A","r","k","a","n","s","a","s">> >>,
     << <<"A","Z">>, <<"A","r","i","z","o","n","a">> >>,
     << <<"M","I">>, <<"M","i","c","h","i","g","a","n">> >> >>

\* the two strings name the same state, each by abbreviation or by name
SameState(a, b) ==
  \/ ToUpperCase(a) = ToUpperCase(b)
  \/ \E i \in 1..Len(UsStates) :
       /\ ToUpperCase(a) \in {ToUpperCase(UsStates[i][1]), ToUpperCase(UsStates[i][2])}
       /\ ToUpperCase(b) \in {ToUpperCase(UsStates[i][1]), ToUpperCase(UsStates[i][2])}

\* C17: getCityLocation called with a state answers null or the coordinate
\* of a lookup result whose address state is the requested state; it
\* answers null when no result lies in the requested state.
C17_CityInRequestedState ==
  (op = "getCityLocation" /\ pc = "done" /\ Truthy(params.state)) =>
     LET data == NominatimResults(params.city)
         inState == {i \in 1..Len(data) : SameState(data[i].state, params.state)}
     IN /\ result.loc.found =>
             \E i \in inState :
               result.loc.lat = data[i].lat /\ result.loc.lng = data[i].lon
        /\ inState = {} => ~result.loc.found

\* ------------------------------------------------------------------------
\* C18: the city-based radius search
\* ------------------------------------------------------------------------
CityRadiusSearch ==
  RadiusSearch /\ Len(CenterZipCodes(params)) = 0 /\ Truthy(params.city)

\* the pre-filter found candidates and the city was not geocoded: the
\* lookup answered null, or the geocoding step raised an exception
CityGeocodeFailed ==
  /\ CityRadiusSearch
  /\ Len(filteredProfiles) > 0
  /\ pc \in {"main", "page", "done"}
  /\ geoLog = <<>> \/ ~geoLog[1].centerData.found

\* C18: a city-based radius search uses neither the bulk postal-code tier
\* nor the per-center loop of the postal-code path, and when the city is
\* not geocoded (null or exception) its main query selects exactly the
\* candidates of the pre-filter query, so a returned page holds only
\* candidates.
C18_CityGeocodeFailureKeepsCandidates ==
  CityRadiusSearch =>
     /\ pc \notin {"bulkTier", "zipPreFilter", "zipRadius"}
     /\ (CityGeocodeFailed /\ MainRan) =>
          /\ Matching(profiles, countWhere.conds, countWhere.req)
               = Range(Ids(filteredProfiles))
          /\ result.kind = "page" =>
               Range(result.profiles) \subseteq Range(Ids(filteredProfiles))

\* ------------------------------------------------------------------------
\* C19, C20: the contact endpoint
\* ------------------------------------------------------------------------
IsContact == op = "POST" /\ params.readable

MissingOrEmpty(v) == v = None \/ v = <<>>

SomeRequiredFieldMissing(p) ==
  \/ MissingOrEmpty(p.name) \/ MissingOrEmpty(p.email)
  \/ MissingOrEmpty(p.comment) \/ MissingOrEmpty(p.profileName)

C20_AlwaysSuccess ==
  (IsContact /\ ~SomeRequiredFieldMissing(params) /\ pc = "done") =>
     result = Response(200, TRUE)

\* ------------------------------------------------------------------------
\* C21
\* ------------------------------------------------------------------------
LookupFailed == Issued("warnLocationEmail")
LookupSucceeded == Issued("getLocationEmail") /\ ~LookupFailed

ExpectedDestination ==
  IF Truthy(params.location) /\ LookupSucceeded THEN OfficeEmail
  ELSE IF Truthy(params.officeEmail) THEN params.officeEmail
  ELSE DefaultEmail

\* C21: the contact handler hands sendContactEmail a non-empty destination:
\* the address of the location-to-email mapping when a location is given and
\* its lookup succeeds, otherwise the address supplied with the request,
\* otherwise the default address; a failing lookup does not end the
\* submission, which goes on to sendContactEmail
C21_DestinationResolved ==
  IsContact =>
    /\ Issued("sendContactEmail") =>
         /\ Truthy(emailParams.toEmail)
         /\ emailParams.toEmail = ExpectedDestination
    /\ LookupFailed => pc = "send" \/ (pc = "done" /\ Issued("sendContactEmail"))

\* a location is given, its lookup fails, no address came with the request,
\* and the email is handed over with the default address
C21_Witness ==
  /\ IsContact /\ pc = "done"
  /\ LookupFailed
  /\ ~Truthy(params.officeEmail)
  /\ Issued("sendContactEmail")
  /\ emailParams.toEmail = DefaultEmail

\* ------------------------------------------------------------------------
\* C22
\* ------------------------------------------------------------------------
ReturnedIds(res) ==
  IF res.kind = "page" THEN Range(res.profiles)
  ELSE IF res.kind = "profile" THEN {res.profile.id}
  ELSE {}

\* the values of a metadata read, each with the rows it can come from
ValueOfActiveRow(v, table) ==
  \E r \in ActiveRows(table) :
    CASE op = "getProfessionTypes" -> v = r.profession_type
      [] op = "getStates" -> v = [code |-> r.state, name |-> r.state]
      [] OTHER -> v = [name |-> r.office, city |-> r.city, state |-> r.state]

OnlyFlagFlipped(before, after, id) ==
  /\ DOMAIN after = DOMAIN before
  /\ \A i \in DOMAIN before :
       after[i] = IF before[i].id = id THEN [before[i] EXCEPT !.is_active = FALSE]
                  ELSE before[i]

\* C22: profiles are soft-deleted: a statement of deleteProfiles only sets
\* is_active to 0 on the row of its id and removes no row, a deleted row
\* stays inactive, and every read that runs after it (the page of
\* getAllProfiles and of searchProfiles, the radius pre-filter recordset,
\* getProfileById, getProfessionTypes, getStates, getOffices) returns data
\* of active rows only and no deleted id
C22_SoftDelete ==
  [][/\ (writer.op = "deleteProfiles" /\ writer' # writer)
          => OnlyFlagFlipped(profiles, profiles', Head(writer.items))
     /\ \A id \in deletedIds' \cap DOMAIN profiles' : ~profiles'[id].is_active
     /\ result' # result =>
          /\ ReturnedIds(result') \cap deletedIds = {}
          /\ \A id \in ReturnedIds(result') : profiles[id].is_active
          /\ result'.kind = "values" =>
               \A i \in 1..Len(result'.values) :
                 ValueOfActiveRow(result'.values[i], profiles)
     /\ filteredProfiles' # filteredProfiles =>
          /\ Range(Ids(filteredProfiles')) \cap deletedIds = {}
          /\ \A id \in Range(Ids(filteredProfiles')) : profiles[id].is_active
    ]_vars

\* a profile that was active is deleted, and getProfileById of its id
\* then finds nothing
C22_Witness ==
  /\ op = "getProfileById" /\ pc = "done"
  /\ params.id \in deletedIds \cap DOMAIN InitialProfiles
  /\ InitialProfiles[params.id].is_active
  /\ result = NullResult

\* ------------------------------------------------------------------------
\* C27
\* ------------------------------------------------------------------------
\* C27: a searchProfiles call that runs while insertProfiles or
\* deleteProfiles statements execute returns a page consistent with its
\* total: the number of rows returned never exceeds
\* max(0, total - (page - 1) * limit)
C27_PageWithinTotalUnderWrites ==
  (IsSearch /\ pc = "done" /\ result.kind = "page") =>
    Len(result.profiles) <= Max(0, result.total - (result.page - 1) * result.limit)

\* ------------------------------------------------------------------------
\* C23
\* ------------------------------------------------------------------------
\* pi * 3959 miles in hundredths of a mile
HalfCircumference == 1243757

\* x === y and x <= y on numbers: false when either side is NaN
NumEq(x, y) == x # NaN /\ y # NaN /\ x = y
NumLeq(x, y) == x # NaN /\ y # NaN /\ x <= y

IsDistance == op = "calculateDistance" /\ pc = "done"

\* C23: calculateDistance is zero on identical points, symmetric in its
\* two points, and no result exceeds half the circumference of the Earth
C23_DistanceContract ==
  IsDistance =>
    /\ NumEq(calculateDistance(params.lat1, params.lng1, params.lat1, params.lng1), 0)
    /\ NumEq(result.miles,
             calculateDistance(params.lat2, params.lng2, params.lat1, params.lng1))
    /\ NumLeq(result.miles, HalfCircumference)

\* ------------------------------------------------------------------------
\* C24
\* ------------------------------------------------------------------------
\* the pre-filter query answered, with no candidate
PreFilterReturnedNothing ==
  /\ RadiusSearch
  /\ Issued("preFilter") /\ ~Issued("warnRadiusSearch")
  /\ filteredProfiles = <<>>

\* C24: when the radius pre-filter query returns no candidate,
\* searchProfiles returns the empty page at once: the pre-filter is the
\* last call it made, no lookup of the per-record tier (center or
\* candidate) is made, and neither the count nor the page query is issued
C24_EmptyPreFilterShortCircuit ==
  PreFilterReturnedNothing =>
    /\ pc = "done"
    /\ result = EmptyPage(params)
    /\ queries[Len(queries)] = "preFilter"
    /\ geoLog = <<>>
    /\ ~Issued("count") /\ ~Issued("page")

\* a radius search around a postal code whose office filter leaves no
\* candidate
C24_Witness ==
  /\ PreFilterReturnedNothing
  /\ pc = "done"
  /\ Truthy(params.zipCode)
  /\ result = EmptyPage(params)

\* ------------------------------------------------------------------------
\* C25
\* ------------------------------------------------------------------------
IsWithinRadiusCall == op = "getProfilesWithinRadius"

\* the candidate at position i got a location within the radius
CandidateMatches(i) ==
  /\ lookups[i].location.found
  /\ WithinMiles(calculateDistance(centerLocationData.lat, centerLocationData.lng,
                                   lookups[i].location.lat, lookups[i].location.lng),
                 params.radiusMiles)

\* positions of s, strictly increasing, whose ids make up ids
InInputOrder(ids) ==
  \E pos \in [1..Len(ids) -> 1..Len(params.profileData)] :
    /\ \A k \in 1..(Len(ids) - 1) : pos[k] < pos[k + 1]
    /\ \A k \in 1..Len(ids) : params.profileData[pos[k]].id = ids[k]

\* C25: within getProfilesWithinRadius the lookups of all candidates are
\* started together and all awaited; whatever the order in which they
\* settle, and whichever of them end in null, the returned ids are those of
\* the candidates whose location lies within the radius, in the order of
\* the input candidates
C25_OrderIndependent ==
  IsWithinRadiusCall =>
    /\ pc = "awaitAll" => Len(lookups) = Len(params.profileData)
    /\ (pc = "done" /\ centerLocationData.found) =>
         /\ \A i \in 1..Len(lookups) : lookups[i] # Pending
         /\ Range(result.ids) =
              {params.profileData[i].id : i \in {j \in 1..Len(lookups) : CandidateMatches(j)}}
         /\ InInputOrder(result.ids)
         /\ \E apiCenter \in BOOLEAN :
              result.ids =
                getProfilesWithinRadius(params.centerLocation, params.radiusMiles,
                                        params.profileData, params.centerCoords, apiCenter,
                                        [i \in 1..Len(lookups) |->
                                           lookups[i].location =
                                             getZipLocation(params.profileData[i].zip_code, TRUE)])

\* the lookup of the second candidate settles before that of the first,
\* both lie within the radius, and a third lookup ends in null
C25_Witness ==
  /\ IsWithinRadiusCall /\ pc = "done"
  /\ Len(settled) = 3 /\ settled[1] = 2 /\ settled[2] = 1
  /\ ~lookups[3].location.found
  /\ result.ids = <<1, 5>>

\* ------------------------------------------------------------------------
\* C26
\* ------------------------------------------------------------------------
\* C26: every geocoding call (getZipLocation, getCityLocation) eventually
\* completes, with a value or with null
C26_GeocodingCompletes == IsGeocoderCall ~> (pc = "done")

\* while no header has arrived the timer ends the wait
HeadersWaitBounded == (IsGeocoderCall /\ pc = "fetching") ~> (pc \in {"readingBody", "done"})

\* ------------------------------------------------------------------------
\* C28
\* ------------------------------------------------------------------------
BoundOnce(req) == \A i, j \in 1..Len(req) : i # j => req[i][1] # req[j][1]

IsBound(req, name) == \E i \in 1..Len(req) : req[i][1] = name

AllBound(conds, req) ==
  \A k \in 1..Len(conds) : \A n \in 1..Len(conds[k].names) :
    IsBound(req, conds[k].names[n])

MainPlaceholders ==
  {"keyword", "profession", "radiusZip", "radiusId", "zip", "zipCode", "city",
   "state", "fallbackState", "office"}

PlaceholdersAmong(conds, bases) ==
  \A k \in 1..Len(conds) : \A n \in 1..Len(conds[k].names) :
    conds[k].names[n][1] \in bases

\* C28: on every path of searchProfiles that reaches the main query each
\* parameter name is bound at most once on the main request, and every
\* placeholder of the WHERE clause is bound on it when the count query and
\* the page query run; the pre-filter request has the same property with
\* its own names
C28_ParametersBoundOnce ==
  IsSearch =>
    /\ MainRan =>
         /\ BoundOnce(countWhere.req)
         /\ AllBound(countWhere.conds, countWhere.req)
         /\ PlaceholdersAmong(countWhere.conds, MainPlaceholders)
    /\ Issued("page") =>
         /\ BoundOnce(request)
         /\ AllBound(conditions, request)
         /\ IsBound(request, <<"offset", 0>>) /\ IsBound(request, <<"limit", 0>>)
    /\ Issued("preFilter") =>
         \A cityPath \in BOOLEAN :
           LET pre == PreFilter(params, cityPath, stateFilter)
           IN /\ BoundOnce(pre.req)
              /\ AllBound(pre.conds, pre.req)
              /\ PlaceholdersAmong(pre.conds,
                                   {"preProf", "preKw", "preOffice", "preState", "preCity"})

\* a radius search with keyword, profession and office whose pre-filter
\* and main requests both carry several parameters
C28_Witness ==
  /\ IsSearch /\ pc = "done" /\ result.kind = "page"
  /\ Issued("preFilter") /\ Issued("page")
  /\ IsBound(request, <<"radiusId", 0>>)
  /\ IsBound(request, <<"keyword", 0>>)
  /\ IsBound(request, <<"profession", 0>>)
  /\ IsBound(request, <<"office", 0>>)
  /\ Len(PreFilter(params, FALSE, stateFilter).req) >= 3

\* ------------------------------------------------------------------------
\* C29
\* ------------------------------------------------------------------------
\* a radius search around postal codes, with a state supplied
ZipRadiusSearchWithState == ZipRadiusSearch /\ Truthy(params.state)

\* its main query carries the ids that the per-record tier kept
ResolvedByPerRecordTier ==
  /\ ZipTierCompleted /\ MainRan
  /\ HasCondition(countWhere.conds, "idIn", "radiusId")

InSuppliedState(id) == profiles[id].state = ToUpperCase(params.state)

\* C29: in a radius search around postal codes that resolves through the
\* per-record tier a supplied state does not restrict the result: neither
\* the pre-filter query nor the main query carries a state predicate, and
\* the main query selects every kept id that passes the keyword,
\* profession and office filters, whatever its state
C29_StateNotApplied ==
  ZipRadiusSearchWithState =>
    /\ Issued("preFilter") =>
         ~HasStateCondition(PreFilter(params, FALSE, stateFilter).conds)
    /\ ResolvedByPerRecordTier =>
         /\ ~HasStateCondition(countWhere.conds)
         /\ Matching(profiles, countWhere.conds, countWhere.req) =
              Range(radiusFilteredIds) \cap PassesThreeFilters(params)
         /\ total = Cardinality(Range(radiusFilteredIds) \cap PassesThreeFilters(params))

\* the search around a New York postal code with state oh returns the
\* profile in New York
C29_Witness ==
  /\ ZipRadiusSearchWithState /\ ResolvedByPerRecordTier
  /\ pc = "done" /\ result.kind = "page"
  /\ \E i \in 1..Len(result.profiles) :
       /\ ~InSuppliedState(result.profiles[i])
       /\ CanBeInRadius(result.profiles[i])

\* ------------------------------------------------------------------------
\* C30
\* ------------------------------------------------------------------------
IsProfileResults == op = "handleShowMore"

\* C30: in ProfileResults, after any sequence of handleShowMore
\* invocations, two of them overlapping while a fetch is in flight
\* included, allProfiles never holds two profiles with the same id
C30_NoDuplicateIds == IsProfileResults => NoDuplicates(allProfiles)

====
